---- MODULE Spec2Model ----
(***************************************************************************)
(* Model of the math kernel of raytracer-rs (src/math): fixed-size         *)
(* matrices, vectors, points, normals and rays.  The library is a family   *)
(* of pure operations on small value types; the state machine draws a      *)
(* receiver value, applies one operation at a time to it and records the   *)
(* operands and the outcome (a value, or a panic).  Values are nominally   *)
(* typed as in the source: a vector, a point and a normal with the same    *)
(* components are different values.                                        *)
(*                                                                         *)
(* FloatScalar is modelled by exact extended rationals <<n, d>> in lowest  *)
(* terms with d >= 0: d > 0 is the rational n/d, <<1,0>> and <<-1,0>> are  *)
(* the infinities and <<0,0>> is NaN (the outcomes of a float division by  *)
(* zero).  Rounding is not modelled.                                       *)
(***************************************************************************)
EXTENDS Integers, Sequences, FiniteSets, TLC

VARIABLES ty, self, op, other, t, i, j, res, calls

vars == <<ty, self, op, other, t, i, j, res, calls>>

(***************************************************************************)
(* Bounds of the model.                                                    *)
(***************************************************************************)
\* entries and scalars are drawn from -MaxEntry..MaxEntry
MaxEntry == 2
\* positional indices (usize) are drawn from 0..MaxIndex
MaxIndex == 4

(***************************************************************************)
(* Scalars.                                                                *)
(***************************************************************************)
\* the outcome of a call that panicked
PANIC == <<"panic">>

Abs(x) == IF x < 0 THEN -x ELSE x

RECURSIVE GCD(_, _)
GCD(x, y) == IF y = 0 THEN x ELSE GCD(y, x % y)

\* the rational n/d in lowest terms with a positive denominator; n/0 is an
\* infinity and 0/0 is NaN
Norm(n, d) ==
    LET g == GCD(Abs(n), Abs(d))
        s == IF d < 0 THEN -1 ELSE 1
    IN  IF g = 0 THEN <<0, 0>> ELSE <<(s * n) \div g, (s * d) \div g>>

\* the float with the integer value x
F(x) == <<x, 1>>

Inf == <<1, 0>>
NegInf == <<-1, 0>>
NaN == <<0, 0>>

\* x + y; an operand that panicked never yields a value
FAdd(x, y) ==
    IF x = PANIC \/ y = PANIC THEN PANIC
    ELSE Norm(x[1] * y[2] + y[1] * x[2], x[2] * y[2])

\* x - y
FSub(x, y) ==
    IF x = PANIC \/ y = PANIC THEN PANIC
    ELSE Norm(x[1] * y[2] - y[1] * x[2], x[2] * y[2])

\* x * y
FMul(x, y) ==
    IF x = PANIC \/ y = PANIC THEN PANIC
    ELSE Norm(x[1] * y[1], x[2] * y[2])

\* -x
FNeg(x) == IF x = PANIC THEN PANIC ELSE <<-x[1], x[2]>>

\* x / y; a float division by zero yields an infinity or NaN, never a panic
FDiv(x, y) ==
    IF x = PANIC \/ y = PANIC THEN PANIC
    ELSE IF y[1] = 0
         THEN (IF x[1] > 0 THEN Inf ELSE IF x[1] < 0 THEN NegInf ELSE NaN)
         ELSE Norm(x[1] * y[2], x[2] * y[1])

\* x < y; every comparison with NaN is false
FLt(x, y) == x[1] * y[2] < y[1] * x[2] \/ (x = NegInf /\ y = Inf)

\* x.abs()
FAbs(x) == <<Abs(x[1]), x[2]>>

(***************************************************************************)
(* Matrices: m[r][c] with 0-based rows and columns, as in the source.      *)
(***************************************************************************)
\* self[index]: the row as a slice; a row out of range panics
Index(m, index) == IF index \in DOMAIN m THEN m[index] ELSE PANIC

\* slice[index]: the bounds-checked element of a row slice
SliceIndex(s, index) ==
    IF s = PANIC THEN PANIC
    ELSE IF index \in DOMAIN s THEN s[index] ELSE PANIC

\* self[r][c] through Index<usize> and the slice
At(m, r, c) == SliceIndex(Index(m, r), c)

\* self[index] through IndexMut<usize>: the row to write into
IndexMut(m, index) == IF index \in DOMAIN m THEN m[index] ELSE PANIC

\* faulty variant of Assign: the entry written is the mirrored one
Assign_mirrored(m, r, c, x) ==
    IF SliceIndex(IndexMut(m, r), c) = PANIC THEN PANIC
    ELSE [m EXCEPT ![c][r] = x]

\* m[r][c] = x: the matrix afterwards, or a panic when r or c is out of range
Assign(m, r, c, x) ==
    IF SliceIndex(IndexMut(m, r), c) = PANIC THEN PANIC
    ELSE [m EXCEPT ![r][c] = x]

\* a constructor call: it runs only when every argument was evaluated
Build(n, args) ==
    IF \E k \in DOMAIN args : args[k] = PANIC THEN PANIC
    ELSE [r \in 0..(n - 1) |-> [c \in 0..(n - 1) |-> args[n * r + c + 1]]]

-----------------------------------------------------------------------------
(* Matrix2x2 *)

Matrix2x2_new(t00, t01, t10, t11) == Build(2, <<t00, t01, t10, t11>>)

Matrix2x2_minor(m, r, c) ==
    IF r > 1 \/ c > 1 THEN PANIC
    ELSE m[(r + 1) % 2][(c + 1) % 2]

Matrix2x2_add(a, b) ==
    Matrix2x2_new(
        FAdd(At(a, 0, 0), At(b, 0, 0)), FAdd(At(a, 0, 1), At(b, 0, 1)),
        FAdd(At(a, 1, 0), At(b, 1, 0)), FAdd(At(a, 1, 1), At(b, 1, 1)))

Matrix2x2_sub(a, b) ==
    Matrix2x2_new(
        FSub(At(a, 0, 0), At(b, 0, 0)), FSub(At(a, 0, 1), At(b, 0, 1)),
        FSub(At(a, 1, 0), At(b, 1, 0)), FSub(At(a, 1, 1), At(b, 1, 1)))

Matrix2x2_mul_scalar(a, s) ==
    Matrix2x2_new(
        FMul(At(a, 0, 0), s), FMul(At(a, 0, 1), s),
        FMul(At(a, 1, 0), s), FMul(At(a, 1, 1), s))

Matrix2x2_div(a, s) ==
    Matrix2x2_new(
        FDiv(At(a, 0, 0), s), FDiv(At(a, 0, 1), s),
        FDiv(At(a, 1, 0), s), FDiv(At(a, 1, 1), s))

\* faulty variant of Matrix2x2_mul: entry (0, 1) reads row 0 of b twice
Matrix2x2_mul_slip(a, b) ==
    Matrix2x2_new(
        FAdd(FMul(At(a, 0, 0), At(b, 0, 0)), FMul(At(a, 0, 1), At(b, 1, 0))),
        FAdd(FMul(At(a, 0, 0), At(b, 0, 1)), FMul(At(a, 0, 1), At(b, 0, 1))),

        FAdd(FMul(At(a, 1, 0), At(b, 0, 0)), FMul(At(a, 1, 1), At(b, 1, 0))),
        FAdd(FMul(At(a, 1, 0), At(b, 0, 1)), FMul(At(a, 1, 1), At(b, 1, 1))))

Matrix2x2_mul(a, b) ==
    Matrix2x2_new(
        FAdd(FMul(At(a, 0, 0), At(b, 0, 0)), FMul(At(a, 0, 1), At(b, 1, 0))),
        FAdd(FMul(At(a, 0, 0), At(b, 0, 1)), FMul(At(a, 0, 1), At(b, 1, 1))),

        FAdd(FMul(At(a, 1, 0), At(b, 0, 0)), FMul(At(a, 1, 1), At(b, 1, 0))),
        FAdd(FMul(At(a, 1, 0), At(b, 0, 1)), FMul(At(a, 1, 1), At(b, 1, 1))))

Matrix2x2_identity ==
    [r \in 0..1 |-> [c \in 0..1 |-> IF r = c THEN F(1) ELSE F(0)]]

Matrix2x2_tranpose(m) ==
    Matrix2x2_new(At(m, 0, 0), At(m, 1, 0),
                  At(m, 0, 1), At(m, 1, 1))

Matrix2x2_determinant(m) ==
    FSub(FMul(m[0][0], m[1][1]), FMul(m[0][1], m[1][0]))

None == <<"None">>
Some(x) == <<"Some", x>>

\* faulty variant of Matrix2x2_inverse: the off-diagonal entries keep their sign
Matrix2x2_inverse_unsigned(m) ==
    LET det == Matrix2x2_determinant(m) IN
    IF det = F(0) THEN None
    ELSE LET inv_det == FDiv(F(1), det) IN
         Some((0 :> (0 :> FMul(m[1][1], inv_det)
                  @@ 1 :> FMul(m[0][1], inv_det))
            @@ 1 :> (0 :> FMul(m[1][0], inv_det)
                  @@ 1 :> FMul(m[0][0], inv_det))))

Matrix2x2_inverse(m) ==
    LET det == Matrix2x2_determinant(m) IN
    IF det = F(0) THEN None
    ELSE LET inv_det == FDiv(F(1), det) IN
         Some((0 :> (0 :> FMul(m[1][1], inv_det)
                  @@ 1 :> FMul(FNeg(m[0][1]), inv_det))
            @@ 1 :> (0 :> FMul(FNeg(m[1][0]), inv_det)
                  @@ 1 :> FMul(m[0][0], inv_det))))

-----------------------------------------------------------------------------
(* Matrix3x3 *)

Matrix3x3_new(t00, t01, t02, t10, t11, t12, t20, t21, t22) ==
    Build(3, <<t00, t01, t02,
               t10, t11, t12,
               t20, t21, t22>>)

Matrix3x3_minor(m, r, c) ==
    IF r > 2 \/ c > 2 THEN PANIC
    ELSE LET fst_row == IF r = 0 THEN 1 ELSE 0
             snd_row == IF r = 1 THEN 2 ELSE fst_row + 1
             fst_col == IF c = 0 THEN 1 ELSE 0
             snd_col == IF c = 1 THEN 2 ELSE fst_col + 1
         IN  Matrix2x2_new(m[fst_row][fst_col], m[fst_row][snd_col],
                           m[snd_row][fst_col], m[snd_row][snd_col])

Matrix3x3_add(a, b) ==
    Matrix3x3_new(
        FAdd(At(a, 0, 0), At(b, 0, 0)), FAdd(At(a, 0, 1), At(b, 0, 1)), FAdd(At(a, 0, 3), At(b, 0, 3)),
        FAdd(At(a, 1, 0), At(b, 1, 0)), FAdd(At(a, 1, 1), At(b, 1, 1)), FAdd(At(a, 1, 3), At(b, 1, 3)),
        FAdd(At(a, 2, 0), At(b, 2, 0)), FAdd(At(a, 2, 1), At(b, 2, 1)), FAdd(At(a, 2, 3), At(b, 2, 3)))

Matrix3x3_sub(a, b) ==
    Matrix3x3_new(
        FSub(At(a, 0, 0), At(b, 0, 0)), FSub(At(a, 0, 1), At(b, 0, 1)), FSub(At(a, 0, 3), At(b, 0, 3)),
        FSub(At(a, 1, 0), At(b, 1, 0)), FSub(At(a, 1, 1), At(b, 1, 1)), FSub(At(a, 1, 3), At(b, 1, 3)),
        FSub(At(a, 2, 0), At(b, 2, 0)), FSub(At(a, 2, 1), At(b, 2, 1)), FSub(At(a, 2, 3), At(b, 2, 3)))

Matrix3x3_mul_scalar(a, s) ==
    Matrix3x3_new(
        FMul(At(a, 0, 0), s), FMul(At(a, 0, 1), s), FMul(At(a, 0, 3), s),
        FMul(At(a, 1, 0), s), FMul(At(a, 1, 1), s), FMul(At(a, 1, 3), s),
        FMul(At(a, 2, 0), s), FMul(At(a, 2, 1), s), FMul(At(a, 2, 3), s))

Matrix3x3_div(a, s) ==
    Matrix3x3_new(
        FDiv(At(a, 0, 0), s), FDiv(At(a, 0, 1), s), FDiv(At(a, 0, 3), s),
        FDiv(At(a, 1, 0), s), FDiv(At(a, 1, 1), s), FDiv(At(a, 1, 3), s),
        FDiv(At(a, 2, 0), s), FDiv(At(a, 2, 1), s), FDiv(At(a, 2, 3), s))

Matrix3x3_mul(a, b) ==
    Matrix3x3_new(
        FAdd(FAdd(FMul(At(a, 0, 0), At(b, 0, 0)), FMul(At(a, 0, 1), At(b, 1, 0))), FMul(At(a, 0, 2), At(b, 2, 0))),
        FAdd(FAdd(FMul(At(a, 0, 0), At(b, 0, 1)), FMul(At(a, 0, 1), At(b, 1, 1))), FMul(At(a, 0, 2), At(b, 2, 1))),
        FAdd(FAdd(FMul(At(a, 0, 0), At(b, 0, 2)), FMul(At(a, 0, 1), At(b, 1, 2))), FMul(At(a, 0, 2), At(b, 2, 2))),
        FAdd(FAdd(FMul(At(a, 1, 0), At(b, 0, 0)), FMul(At(a, 1, 1), At(b, 1, 0))), FMul(At(a, 1, 2), At(b, 2, 0))),
        FAdd(FAdd(FMul(At(a, 1, 0), At(b, 0, 1)), FMul(At(a, 1, 1), At(b, 1, 1))), FMul(At(a, 1, 2), At(b, 2, 1))),
        FAdd(FAdd(FMul(At(a, 1, 0), At(b, 0, 2)), FMul(At(a, 1, 1), At(b, 1, 2))), FMul(At(a, 1, 2), At(b, 2, 2))),
        FAdd(FAdd(FMul(At(a, 2, 0), At(b, 0, 0)), FMul(At(a, 2, 1), At(b, 1, 0))), FMul(At(a, 2, 2), At(b, 2, 0))),
        FAdd(FAdd(FMul(At(a, 2, 0), At(b, 0, 1)), FMul(At(a, 2, 1), At(b, 1, 1))), FMul(At(a, 2, 2), At(b, 2, 1))),
        FAdd(FAdd(FMul(At(a, 2, 0), At(b, 0, 2)), FMul(At(a, 2, 1), At(b, 1, 2))), FMul(At(a, 2, 2), At(b, 2, 2))))

Matrix3x3_identity ==
    [r \in 0..2 |-> [c \in 0..2 |-> IF r = c THEN F(1) ELSE F(0)]]

\* faulty variant of Matrix3x3_tranpose: entry (1, 2) is not mirrored
Matrix3x3_tranpose_slip(m) ==
    Matrix3x3_new(
        At(m, 0, 0), At(m, 1, 0), At(m, 2, 0),
        At(m, 0, 1), At(m, 1, 1), At(m, 1, 2),
        At(m, 0, 2), At(m, 1, 2), At(m, 2, 2))

Matrix3x3_tranpose(m) ==
    Matrix3x3_new(
        At(m, 0, 0), At(m, 1, 0), At(m, 2, 0),
        At(m, 0, 1), At(m, 1, 1), At(m, 2, 1),
        At(m, 0, 2), At(m, 1, 2), At(m, 2, 2))

\* faulty variant of Matrix3x3_determinant: the middle cofactor is added
Matrix3x3_determinant_unsigned(m) ==
    FAdd(FAdd(FMul(m[0][0], Matrix2x2_determinant(Matrix3x3_minor(m, 0, 0))),
         FMul(m[0][1], Matrix2x2_determinant(Matrix3x3_minor(m, 0, 1)))),
         FMul(m[0][2], Matrix2x2_determinant(Matrix3x3_minor(m, 0, 2))))

Matrix3x3_determinant(m) ==
    FAdd(FSub(FMul(m[0][0], Matrix2x2_determinant(Matrix3x3_minor(m, 0, 0))),
         FMul(m[0][1], Matrix2x2_determinant(Matrix3x3_minor(m, 0, 1)))),
         FMul(m[0][2], Matrix2x2_determinant(Matrix3x3_minor(m, 0, 2))))

\* faulty variant of Matrix3x3_inverse: scales by det instead of 1 / det
Matrix3x3_inverse_scaled(m) ==
    LET det == Matrix3x3_determinant(m) IN
    IF det = F(0) THEN None
    ELSE LET inv_det == det IN
         Some(Matrix3x3_new(
             FMul(Matrix2x2_determinant(Matrix3x3_minor(m, 0, 0)), inv_det),
             FMul(Matrix2x2_determinant(Matrix3x3_minor(m, 0, 1)), inv_det),
             FMul(Matrix2x2_determinant(Matrix3x3_minor(m, 0, 2)), inv_det),

             FMul(Matrix2x2_determinant(Matrix3x3_minor(m, 1, 0)), inv_det),
             FMul(Matrix2x2_determinant(Matrix3x3_minor(m, 1, 1)), inv_det),
             FMul(Matrix2x2_determinant(Matrix3x3_minor(m, 1, 2)), inv_det),

             FMul(Matrix2x2_determinant(Matrix3x3_minor(m, 2, 0)), inv_det),
             FMul(Matrix2x2_determinant(Matrix3x3_minor(m, 2, 1)), inv_det),
             FMul(Matrix2x2_determinant(Matrix3x3_minor(m, 2, 2)), inv_det)))

Matrix3x3_inverse(m) ==
    LET det == Matrix3x3_determinant(m) IN
    IF det = F(0) THEN None
    ELSE LET inv_det == FDiv(F(1), det) IN
         Some(Matrix3x3_new(
             FMul(Matrix2x2_determinant(Matrix3x3_minor(m, 0, 0)), inv_det),
             FMul(Matrix2x2_determinant(Matrix3x3_minor(m, 0, 1)), inv_det),
             FMul(Matrix2x2_determinant(Matrix3x3_minor(m, 0, 2)), inv_det),

             FMul(Matrix2x2_determinant(Matrix3x3_minor(m, 1, 0)), inv_det),
             FMul(Matrix2x2_determinant(Matrix3x3_minor(m, 1, 1)), inv_det),
             FMul(Matrix2x2_determinant(Matrix3x3_minor(m, 1, 2)), inv_det),

             FMul(Matrix2x2_determinant(Matrix3x3_minor(m, 2, 0)), inv_det),
             FMul(Matrix2x2_determinant(Matrix3x3_minor(m, 2, 1)), inv_det),
             FMul(Matrix2x2_determinant(Matrix3x3_minor(m, 2, 2)), inv_det)))

-----------------------------------------------------------------------------
(* Matrix4x4 *)

Matrix4x4_new(t00, t01, t02, t03, t10, t11, t12, t13, t20, t21, t22, t23, t30, t31, t32, t33) ==
    Build(4, <<t00, t01, t02, t03,
               t10, t11, t12, t13,
               t20, t21, t22, t23,
               t30, t31, t32, t33>>)

\* faulty variant of Matrix4x4_minor: the deleted row and column are
\* interchanged
Matrix4x4_minor_interchanged(m, r, c) ==
    IF r > 3 \/ c > 3 THEN PANIC
    ELSE LET fst_row == IF c = 0 THEN 1 ELSE 0
             snd_row == IF c = 1 THEN 2 ELSE fst_row + 1
             trd_row == IF c = 2 THEN 3 ELSE snd_row + 1
             fst_col == IF r = 0 THEN 1 ELSE 0
             snd_col == IF r = 1 THEN 2 ELSE fst_col + 1
             trd_col == IF r = 2 THEN 3 ELSE snd_col + 1
         IN  Matrix3x3_new(m[fst_row][fst_col], m[fst_row][snd_col], m[fst_row][trd_col],
                           m[snd_row][fst_col], m[snd_row][snd_col], m[snd_row][trd_col],
                           m[trd_row][fst_col], m[trd_row][snd_col], m[trd_row][trd_col])

Matrix4x4_minor(m, r, c) ==
    IF r > 3 \/ c > 3 THEN PANIC
    ELSE LET fst_row == IF r = 0 THEN 1 ELSE 0
             snd_row == IF r = 1 THEN 2 ELSE fst_row + 1
             trd_row == IF r = 2 THEN 3 ELSE snd_row + 1
             fst_col == IF c = 0 THEN 1 ELSE 0
             snd_col == IF c = 1 THEN 2 ELSE fst_col + 1
             trd_col == IF c = 2 THEN 3 ELSE snd_col + 1
         IN  Matrix3x3_new(m[fst_row][fst_col], m[fst_row][snd_col], m[fst_row][trd_col],
                           m[snd_row][fst_col], m[snd_row][snd_col], m[snd_row][trd_col],
                           m[trd_row][fst_col], m[trd_row][snd_col], m[trd_row][trd_col])

Matrix4x4_add(a, b) ==
    Matrix4x4_new(
        FAdd(At(a, 0, 0), At(b, 0, 0)), FAdd(At(a, 0, 1), At(b, 0, 1)), FAdd(At(a, 0, 3), At(b, 0, 3)), FAdd(At(a, 0, 3), At(b, 0, 3)),
        FAdd(At(a, 1, 0), At(b, 1, 0)), FAdd(At(a, 1, 1), At(b, 1, 1)), FAdd(At(a, 1, 3), At(b, 1, 3)), FAdd(At(a, 1, 3), At(b, 1, 3)),
        FAdd(At(a, 2, 0), At(b, 2, 0)), FAdd(At(a, 2, 1), At(b, 2, 1)), FAdd(At(a, 2, 3), At(b, 2, 3)), FAdd(At(a, 2, 3), At(b, 2, 3)),
        FAdd(At(a, 3, 0), At(b, 3, 0)), FAdd(At(a, 3, 1), At(b, 3, 1)), FAdd(At(a, 3, 3), At(b, 3, 3)), FAdd(At(a, 3, 3), At(b, 3, 3)))

Matrix4x4_sub(a, b) ==
    Matrix4x4_new(
        FSub(At(a, 0, 0), At(b, 0, 0)), FSub(At(a, 0, 1), At(b, 0, 1)), FSub(At(a, 0, 3), At(b, 0, 3)), FSub(At(a, 0, 3), At(b, 0, 3)),
        FSub(At(a, 1, 0), At(b, 1, 0)), FSub(At(a, 1, 1), At(b, 1, 1)), FSub(At(a, 1, 3), At(b, 1, 3)), FSub(At(a, 1, 3), At(b, 1, 3)),
        FSub(At(a, 2, 0), At(b, 2, 0)), FSub(At(a, 2, 1), At(b, 2, 1)), FSub(At(a, 2, 3), At(b, 2, 3)), FSub(At(a, 2, 3), At(b, 2, 3)),
        FSub(At(a, 3, 0), At(b, 3, 0)), FSub(At(a, 3, 1), At(b, 3, 1)), FSub(At(a, 3, 3), At(b, 3, 3)), FSub(At(a, 3, 3), At(b, 3, 3)))

Matrix4x4_mul_scalar(a, s) ==
    Matrix4x4_new(
        FMul(At(a, 0, 0), s), FMul(At(a, 0, 1), s), FMul(At(a, 0, 3), s), FMul(At(a, 0, 3), s),
        FMul(At(a, 1, 0), s), FMul(At(a, 1, 1), s), FMul(At(a, 1, 3), s), FMul(At(a, 1, 3), s),
        FMul(At(a, 2, 0), s), FMul(At(a, 2, 1), s), FMul(At(a, 2, 3), s), FMul(At(a, 2, 3), s),
        FMul(At(a, 3, 0), s), FMul(At(a, 3, 1), s), FMul(At(a, 3, 3), s), FMul(At(a, 3, 3), s))

Matrix4x4_div(a, s) ==
    Matrix4x4_new(
        FDiv(At(a, 0, 0), s), FDiv(At(a, 0, 1), s), FDiv(At(a, 0, 3), s), FDiv(At(a, 0, 3), s),
        FDiv(At(a, 1, 0), s), FDiv(At(a, 1, 1), s), FDiv(At(a, 1, 3), s), FDiv(At(a, 1, 3), s),
        FDiv(At(a, 2, 0), s), FDiv(At(a, 2, 1), s), FDiv(At(a, 2, 3), s), FDiv(At(a, 2, 3), s),
        FDiv(At(a, 3, 0), s), FDiv(At(a, 3, 1), s), FDiv(At(a, 3, 3), s), FDiv(At(a, 3, 3), s))

Matrix4x4_mul(a, b) ==
    Matrix4x4_new(
        FAdd(FAdd(FAdd(FMul(At(a, 0, 0), At(b, 0, 0)), FMul(At(a, 0, 1), At(b, 1, 0))), FMul(At(a, 0, 2), At(b, 2, 0))), FMul(At(a, 0, 3), At(b, 3, 0))),
        FAdd(FAdd(FAdd(FMul(At(a, 0, 0), At(b, 0, 1)), FMul(At(a, 0, 1), At(b, 1, 1))), FMul(At(a, 0, 2), At(b, 2, 1))), FMul(At(a, 0, 3), At(b, 3, 1))),
        FAdd(FAdd(FAdd(FMul(At(a, 0, 0), At(b, 0, 2)), FMul(At(a, 0, 1), At(b, 1, 2))), FMul(At(a, 0, 2), At(b, 2, 2))), FMul(At(a, 0, 3), At(b, 3, 2))),
        FAdd(FAdd(FAdd(FMul(At(a, 0, 0), At(b, 0, 3)), FMul(At(a, 0, 1), At(b, 1, 3))), FMul(At(a, 0, 2), At(b, 2, 3))), FMul(At(a, 0, 3), At(b, 3, 3))),
        FAdd(FAdd(FAdd(FMul(At(a, 1, 0), At(b, 0, 0)), FMul(At(a, 1, 1), At(b, 1, 0))), FMul(At(a, 1, 2), At(b, 2, 0))), FMul(At(a, 1, 3), At(b, 3, 0))),
        FAdd(FAdd(FAdd(FMul(At(a, 1, 0), At(b, 0, 1)), FMul(At(a, 1, 1), At(b, 1, 1))), FMul(At(a, 1, 2), At(b, 2, 1))), FMul(At(a, 1, 3), At(b, 3, 1))),
        FAdd(FAdd(FAdd(FMul(At(a, 1, 0), At(b, 0, 2)), FMul(At(a, 1, 1), At(b, 1, 2))), FMul(At(a, 1, 2), At(b, 2, 2))), FMul(At(a, 1, 3), At(b, 3, 2))),
        FAdd(FAdd(FAdd(FMul(At(a, 1, 0), At(b, 0, 3)), FMul(At(a, 1, 1), At(b, 1, 3))), FMul(At(a, 1, 2), At(b, 2, 3))), FMul(At(a, 1, 3), At(b, 3, 3))),
        FAdd(FAdd(FAdd(FMul(At(a, 2, 0), At(b, 0, 0)), FMul(At(a, 2, 1), At(b, 1, 0))), FMul(At(a, 2, 2), At(b, 2, 0))), FMul(At(a, 2, 3), At(b, 3, 0))),
        FAdd(FAdd(FAdd(FMul(At(a, 2, 0), At(b, 0, 1)), FMul(At(a, 2, 1), At(b, 1, 1))), FMul(At(a, 2, 2), At(b, 2, 1))), FMul(At(a, 2, 3), At(b, 3, 1))),
        FAdd(FAdd(FAdd(FMul(At(a, 2, 0), At(b, 0, 2)), FMul(At(a, 2, 1), At(b, 1, 2))), FMul(At(a, 2, 2), At(b, 2, 2))), FMul(At(a, 2, 3), At(b, 3, 2))),
        FAdd(FAdd(FAdd(FMul(At(a, 2, 0), At(b, 0, 3)), FMul(At(a, 2, 1), At(b, 1, 3))), FMul(At(a, 2, 2), At(b, 2, 3))), FMul(At(a, 2, 3), At(b, 3, 3))),
        FAdd(FAdd(FAdd(FMul(At(a, 3, 0), At(b, 0, 0)), FMul(At(a, 3, 1), At(b, 1, 0))), FMul(At(a, 3, 2), At(b, 2, 0))), FMul(At(a, 3, 3), At(b, 3, 0))),
        FAdd(FAdd(FAdd(FMul(At(a, 3, 0), At(b, 0, 1)), FMul(At(a, 3, 1), At(b, 1, 1))), FMul(At(a, 3, 2), At(b, 2, 1))), FMul(At(a, 3, 3), At(b, 3, 1))),
        FAdd(FAdd(FAdd(FMul(At(a, 3, 0), At(b, 0, 2)), FMul(At(a, 3, 1), At(b, 1, 2))), FMul(At(a, 3, 2), At(b, 2, 2))), FMul(At(a, 3, 3), At(b, 3, 2))),
        FAdd(FAdd(FAdd(FMul(At(a, 3, 0), At(b, 0, 3)), FMul(At(a, 3, 1), At(b, 1, 3))), FMul(At(a, 3, 2), At(b, 2, 3))), FMul(At(a, 3, 3), At(b, 3, 3))))

Matrix4x4_identity ==
    [r \in 0..3 |-> [c \in 0..3 |-> IF r = c THEN F(1) ELSE F(0)]]

Matrix4x4_tranpose(m) ==
    Matrix4x4_new(
        At(m, 0, 0), At(m, 1, 0), At(m, 2, 0), At(m, 3, 0),
        At(m, 0, 1), At(m, 1, 1), At(m, 2, 1), At(m, 3, 1),
        At(m, 0, 2), At(m, 1, 2), At(m, 2, 2), At(m, 3, 2),
        At(m, 0, 3), At(m, 1, 3), At(m, 2, 3), At(m, 3, 3))

\* faulty variant of Matrix4x4_determinant: the last cofactor is added
Matrix4x4_determinant_unsigned(m) ==
    FAdd(FAdd(FSub(FMul(m[0][0], Matrix3x3_determinant(Matrix4x4_minor(m, 0, 0))),
         FMul(m[0][1], Matrix3x3_determinant(Matrix4x4_minor(m, 0, 1)))),
         FMul(m[0][2], Matrix3x3_determinant(Matrix4x4_minor(m, 0, 2)))),
         FMul(m[0][3], Matrix3x3_determinant(Matrix4x4_minor(m, 0, 3))))

Matrix4x4_determinant(m) ==
    FSub(FAdd(FSub(FMul(m[0][0], Matrix3x3_determinant(Matrix4x4_minor(m, 0, 0))),
         FMul(m[0][1], Matrix3x3_determinant(Matrix4x4_minor(m, 0, 1)))),
         FMul(m[0][2], Matrix3x3_determinant(Matrix4x4_minor(m, 0, 2)))),
         FMul(m[0][3], Matrix3x3_determinant(Matrix4x4_minor(m, 0, 3))))

Matrix4x4_inverse(m) ==
    LET det == Matrix4x4_determinant(m) IN
    IF det = F(0) THEN None
    ELSE LET inv_det == FDiv(F(1), det) IN
         Some(Matrix4x4_new(
             FMul(Matrix3x3_determinant(Matrix4x4_minor(m, 0, 0)), inv_det),
             FMul(Matrix3x3_determinant(Matrix4x4_minor(m, 0, 1)), inv_det),
             FMul(Matrix3x3_determinant(Matrix4x4_minor(m, 0, 2)), inv_det),
             FMul(Matrix3x3_determinant(Matrix4x4_minor(m, 0, 3)), inv_det),

             FMul(Matrix3x3_determinant(Matrix4x4_minor(m, 1, 0)), inv_det),
             FMul(Matrix3x3_determinant(Matrix4x4_minor(m, 1, 1)), inv_det),
             FMul(Matrix3x3_determinant(Matrix4x4_minor(m, 1, 2)), inv_det),
             FMul(Matrix3x3_determinant(Matrix4x4_minor(m, 1, 3)), inv_det),

             FMul(Matrix3x3_determinant(Matrix4x4_minor(m, 2, 0)), inv_det),
             FMul(Matrix3x3_determinant(Matrix4x4_minor(m, 2, 1)), inv_det),
             FMul(Matrix3x3_determinant(Matrix4x4_minor(m, 2, 2)), inv_det),
             FMul(Matrix3x3_determinant(Matrix4x4_minor(m, 2, 3)), inv_det),

             FMul(Matrix3x3_determinant(Matrix4x4_minor(m, 3, 0)), inv_det),
             FMul(Matrix3x3_determinant(Matrix4x4_minor(m, 3, 1)), inv_det),
             FMul(Matrix3x3_determinant(Matrix4x4_minor(m, 3, 2)), inv_det),
             FMul(Matrix3x3_determinant(Matrix4x4_minor(m, 3, 3)), inv_det)))

-----------------------------------------------------------------------------
(* Vectors and points: positional and axis-tag indexing *)

Dimension2 == {"X", "Y"}
Dimension3 == {"X", "Y", "Z"}

Vector3_new(x, y, z) == [type |-> "Vector3", x |-> x, y |-> y, z |-> z]
Vector2_new(x, y) == [type |-> "Vector2", x |-> x, y |-> y]
Point3_new(x, y, z) == [type |-> "Point3", x |-> x, y |-> y, z |-> z]
Point2_new(x, y) == [type |-> "Point2", x |-> x, y |-> y]
Normal3_new(x, y, z) == [type |-> "Normal3", x |-> x, y |-> y, z |-> z]

\* faulty variant of Vector3_index: a position out of range is clamped to z
Vector3_index_clamped(v, index) ==
    CASE index = 0 -> v.x
      [] index = 1 -> v.y
      [] OTHER -> v.z

Vector3_index(v, index) ==
    CASE index = 0 -> v.x
      [] index = 1 -> v.y
      [] index = 2 -> v.z
      [] OTHER -> PANIC

Vector3_index_dim(v, index) ==
    CASE index = "X" -> v.x
      [] index = "Y" -> v.y
      [] index = "Z" -> v.z

Vector2_index(v, index) ==
    CASE index = 0 -> v.x
      [] index = 1 -> v.y
      [] OTHER -> PANIC

Vector2_index_dim(v, index) ==
    CASE index = "X" -> v.x
      [] index = "Y" -> v.y

Point3_index(p, index) ==
    CASE index = 0 -> p.x
      [] index = 1 -> p.y
      [] index = 2 -> p.z
      [] OTHER -> PANIC

Point3_index_dim(p, index) ==
    CASE index = "X" -> p.x
      [] index = "Y" -> p.y
      [] index = "Z" -> p.z

Point2_index(p, index) ==
    CASE index = 0 -> p.x
      [] index = 1 -> p.y
      [] OTHER -> PANIC

Point2_index_dim(p, index) ==
    CASE index = "X" -> p.x
      [] index = "Y" -> p.y

-----------------------------------------------------------------------------
(* Vectors, points and normals: arithmetic *)

Vector3_add(a, b) == Vector3_new(FAdd(a.x, b.x), FAdd(a.y, b.y), FAdd(a.z, b.z))

Vector3_sub(a, b) == Vector3_new(FSub(a.x, b.x), FSub(a.y, b.y), FSub(a.z, b.z))

Vector3_mul(v, s) == Vector3_new(FMul(v.x, s), FMul(v.y, s), FMul(v.z, s))

\* faulty variant of Vector3_cross: the second component has its terms swapped
Vector3_cross_swapped(a, b) ==
    Vector3_new(FSub(FMul(a.y, b.z), FMul(a.z, b.y)),
                FSub(FMul(a.x, b.z), FMul(a.z, b.x)),
                FSub(FMul(a.x, b.y), FMul(a.y, b.x)))

\* Vector3 x Vector3
Vector3_cross(a, b) ==
    Vector3_new(FSub(FMul(a.y, b.z), FMul(a.z, b.y)),
                FSub(FMul(a.z, b.x), FMul(a.x, b.z)),
                FSub(FMul(a.x, b.y), FMul(a.y, b.x)))

\* Vector3 x Normal3
Vector3_cross_normal(a, b) ==
    Vector3_new(FSub(FMul(a.y, b.z), FMul(a.z, b.y)),
                FSub(FMul(a.z, b.x), FMul(a.x, b.z)),
                FSub(FMul(a.x, b.y), FMul(a.y, b.x)))

\* Normal3 x Vector3
Normal3_cross(a, b) ==
    Vector3_new(FSub(FMul(a.y, b.z), FMul(a.z, b.y)),
                FSub(FMul(a.z, b.x), FMul(a.x, b.z)),
                FSub(FMul(a.x, b.y), FMul(a.y, b.x)))

\* Vector3 . Vector3
Vector3_dot(a, b) == FAdd(FAdd(FMul(a.x, b.x), FMul(a.y, b.y)), FMul(a.z, b.z))

\* Vector3 . Normal3
Vector3_dot_normal(a, b) ==
    FAdd(FAdd(FMul(a.x, b.x), FMul(a.y, b.y)), FMul(a.z, b.z))

\* Normal3 . Normal3
Normal3_dot(a, b) == FAdd(FAdd(FMul(a.x, b.x), FMul(a.y, b.y)), FMul(a.z, b.z))

\* Normal3 . Vector3
Normal3_dot_vector(a, b) ==
    FAdd(FAdd(FMul(a.x, b.x), FMul(a.y, b.y)), FMul(a.z, b.z))

Vector2_add(a, b) == Vector2_new(FAdd(a.x, b.x), FAdd(a.y, b.y))

Vector2_mul(v, s) == Vector2_new(FMul(v.x, s), FMul(v.y, s))

\* Point3 + Point3
Point3_add(a, b) == Point3_new(FAdd(a.x, b.x), FAdd(a.y, b.y), FAdd(a.z, b.z))

\* Point3 + Vector3
Point3_add_vector(p, v) ==
    Point3_new(FAdd(p.x, v.x), FAdd(p.y, v.y), FAdd(p.z, v.z))

\* faulty variant of Point3_sub: the difference is taken the other way round
Point3_sub_reversed(a, b) ==
    Vector3_new(FSub(b.x, a.x), FSub(b.y, a.y), FSub(b.z, a.z))

\* Point3 - Point3
Point3_sub(a, b) == Vector3_new(FSub(a.x, b.x), FSub(a.y, b.y), FSub(a.z, b.z))

\* Point3 - Vector3
Point3_sub_vector(p, v) ==
    Point3_new(FSub(p.x, v.x), FSub(p.y, v.y), FSub(p.z, v.z))

Point3_mul(p, s) == Point3_new(FMul(p.x, s), FMul(p.y, s), FMul(p.z, s))

\* Point2 + Point2
Point2_add(a, b) == Point2_new(FAdd(a.x, b.x), FAdd(a.y, b.y))

\* Point2 + Vector2
Point2_add_vector(p, v) == Point2_new(FAdd(p.x, v.x), FAdd(p.y, v.y))

\* Point2 - Point2
Point2_sub(a, b) == Vector2_new(FSub(a.x, b.x), FSub(a.y, b.y))

\* Point2 - Vector2
Point2_sub_vector(p, v) == Point2_new(FSub(p.x, v.x), FSub(p.y, v.y))

Point2_mul(p, s) == Point2_new(FMul(p.x, s), FMul(p.y, s))

\* LinearInterpolate::lerp for each implementing type
Vector3_lerp(a, b, s) == Vector3_add(Vector3_mul(a, FSub(F(1), s)), Vector3_mul(b, s))

Vector2_lerp(a, b, s) == Vector2_add(Vector2_mul(a, FSub(F(1), s)), Vector2_mul(b, s))

\* faulty variant of Point3_lerp: the parameter is clamped to [0, 1]
Point3_lerp_clamped(a, b, s) ==
    LET c == IF s[1] < 0 THEN F(0) ELSE IF s[1] > s[2] THEN F(1) ELSE s
    IN  Point3_add(Point3_mul(a, FSub(F(1), c)), Point3_mul(b, c))

Point3_lerp(a, b, s) == Point3_add(Point3_mul(a, FSub(F(1), s)), Point3_mul(b, s))

Point2_lerp(a, b, s) == Point2_add(Point2_mul(a, FSub(F(1), s)), Point2_mul(b, s))

\* n is the square of a natural number
IsSquare(n) == \E r \in 0..n : r * r = n

\* x is a float whose square root is a rational
HasExactSqrt(x) == x[1] >= 0 /\ IsSquare(x[1]) /\ IsSquare(x[2])

\* Float::sqrt, for the floats whose root is a rational, the infinities and
\* NaN (the root of a negative number is NaN)
Sqrt(x) ==
    IF x[1] < 0 THEN NaN
    ELSE <<CHOOSE r \in 0..x[1] : r * r = x[1], CHOOSE r \in 0..x[2] : r * r = x[2]>>

Vector3_magnitude_squared(v) == Vector3_dot(v, v)

Vector3_magnitude(v) == Sqrt(Vector3_magnitude_squared(v))

Vector3_normalize(v) == Vector3_mul(v, FDiv(F(1), Vector3_magnitude(v)))

\* faulty variant of coordinate_system_v2: the branch compares x with y, not
\* their absolute values
coordinate_system_v2_signed(v1) ==
    IF FLt(v1.y, v1.x)
    THEN Vector3_new(FNeg(v1.z), F(0), v1.x)
    ELSE Vector3_new(F(0), v1.z, FNeg(v1.y))

\* the vector coordinate_system builds and then normalizes
coordinate_system_v2(v1) ==
    IF FLt(FAbs(v1.y), FAbs(v1.x))
    THEN Vector3_new(FNeg(v1.z), F(0), v1.x)
    ELSE Vector3_new(F(0), v1.z, FNeg(v1.y))

coordinate_system(v1) ==
    LET v2 == Vector3_normalize(coordinate_system_v2(v1))
    IN  <<v2, Vector3_cross(v1, v2)>>

\* LinearInterpolate::lerp on the type of a
lerp(a, b, s) ==
    CASE a.type = "Vector3" -> Vector3_lerp(a, b, s)
      [] a.type = "Vector2" -> Vector2_lerp(a, b, s)
      [] a.type = "Point3" -> Point3_lerp(a, b, s)
      [] a.type = "Point2" -> Point2_lerp(a, b, s)

\* Point + Point
point_add(a, b) == IF a.type = "Point3" THEN Point3_add(a, b) ELSE Point2_add(a, b)

\* Point + Vector
point_add_vector(p, v) ==
    IF p.type = "Point3" THEN Point3_add_vector(p, v) ELSE Point2_add_vector(p, v)

\* Point - Point
point_sub(a, b) == IF a.type = "Point3" THEN Point3_sub(a, b) ELSE Point2_sub(a, b)

\* Point - Vector
point_sub_vector(p, v) ==
    IF p.type = "Point3" THEN Point3_sub_vector(p, v) ELSE Point2_sub_vector(p, v)

\* the free function cross on the types of its arguments
cross(v1, v2) ==
    CASE v1.type = "Vector3" /\ v2.type = "Vector3" -> Vector3_cross(v1, v2)
      [] v1.type = "Vector3" /\ v2.type = "Normal3" -> Vector3_cross_normal(v1, v2)
      [] v1.type = "Normal3" /\ v2.type = "Vector3" -> Normal3_cross(v1, v2)

\* the free function dot on the types of its arguments
dot(v1, v2) ==
    CASE v1.type = "Vector3" /\ v2.type = "Vector3" -> Vector3_dot(v1, v2)
      [] v1.type = "Vector3" /\ v2.type = "Normal3" -> Vector3_dot_normal(v1, v2)
      [] v1.type = "Normal3" /\ v2.type = "Vector3" -> Normal3_dot_vector(v1, v2)
      [] v1.type = "Normal3" /\ v2.type = "Normal3" -> Normal3_dot(v1, v2)

-----------------------------------------------------------------------------
(* Vectors, points and normals: the operations that every type implements *)
(* with the same body, on the components of its own fields                 *)

\* the constructor of a type; the 2D types have no z
tuple_new(type, x, y, z) ==
    CASE type = "Vector3" -> Vector3_new(x, y, z)
      [] type = "Vector2" -> Vector2_new(x, y)
      [] type = "Point3" -> Point3_new(x, y, z)
      [] type = "Point2" -> Point2_new(x, y)
      [] type = "Normal3" -> Normal3_new(x, y, z)

\* faulty variant of partial_min: the branches are interchanged
partial_min_interchanged(a, b) == IF FLt(a, b) THEN b ELSE a

partial_min(a, b) == IF FLt(a, b) THEN a ELSE b

partial_max(a, b) == IF FLt(b, a) THEN a ELSE b

\* ComponentWise::min_component
min_component(v) ==
    IF "z" \in DOMAIN v
    THEN partial_min(v.x, partial_min(v.y, v.z))
    ELSE partial_min(v.x, v.y)

\* ComponentWise::max_component
max_component(v) ==
    IF "z" \in DOMAIN v
    THEN partial_max(v.x, partial_max(v.y, v.z))
    ELSE partial_max(v.x, v.y)

\* faulty variant of max_dimension: a tie for the greatest goes to the
\* first axis that reaches it
max_dimension_first(v) ==
    IF "z" \in DOMAIN v
    THEN (IF ~FLt(v.x, v.y) /\ ~FLt(v.x, v.z) THEN "X"
          ELSE IF ~FLt(v.y, v.x) /\ ~FLt(v.y, v.z) THEN "Y"
          ELSE "Z")
    ELSE (IF ~FLt(v.x, v.y) THEN "X" ELSE "Y")

\* ComponentWise::max_dimension
max_dimension(v) ==
    IF "z" \in DOMAIN v
    THEN (IF FLt(v.y, v.x) /\ FLt(v.z, v.x) THEN "X"
          ELSE IF FLt(v.x, v.y) /\ FLt(v.z, v.y) THEN "Y"
          ELSE "Z")
    ELSE (IF FLt(v.y, v.x) THEN "X" ELSE "Y")

\* ComponentWise::min
min(a, b) ==
    tuple_new(a.type, partial_min(a.x, b.x), partial_min(a.y, b.y),
              IF "z" \in DOMAIN a THEN partial_min(a.z, b.z) ELSE <<>>)

\* ComponentWise::max
max(a, b) ==
    tuple_new(a.type, partial_max(a.x, b.x), partial_max(a.y, b.y),
              IF "z" \in DOMAIN a THEN partial_max(a.z, b.z) ELSE <<>>)

\* the scalar operator behind +, -, * and / and their compound forms
scalar_op(f, x, y) ==
    CASE f = "add" -> FAdd(x, y)
      [] f = "sub" -> FSub(x, y)
      [] f = "mul" -> FMul(x, y)
      [] f = "div" -> FDiv(x, y)

\* a + b, a - b (b of a tuple type), a * b, a / b (b a scalar): a new value
\* built by the constructor of the output type, a Vector for Point - Point
binary(f, a, b) ==
    LET rhs(c) == IF f \in {"add", "sub"} THEN b[c] ELSE b
        output == IF f = "sub" /\ b.type = a.type /\ a.type = "Point3" THEN "Vector3"
                  ELSE IF f = "sub" /\ b.type = a.type /\ a.type = "Point2" THEN "Vector2"
                  ELSE a.type
    IN  tuple_new(output, scalar_op(f, a.x, rhs("x")), scalar_op(f, a.y, rhs("y")),
                  IF "z" \in DOMAIN a THEN scalar_op(f, a.z, rhs("z")) ELSE <<>>)

\* faulty variant of assign: the y component is left as it was
assign_partial(f, a, b) ==
    LET rhs(c) == IF f \in {"add", "sub"} THEN b[c] ELSE b
    IN  [c \in DOMAIN a |->
            IF c \in {"type", "y"} THEN a[c] ELSE scalar_op(f, a[c], rhs(c))]

\* a += b, a -= b, a *= b, a /= b: every field of a but its type is updated
\* in place
assign(f, a, b) ==
    LET rhs(c) == IF f \in {"add", "sub"} THEN b[c] ELSE b
    IN  [c \in DOMAIN a |->
            IF c = "type" THEN a[c] ELSE scalar_op(f, a[c], rhs(c))]

-----------------------------------------------------------------------------
(* Rays and ray differentials *)

Ray_new(origin, direction) ==
    [type |-> "Ray", origin |-> origin, direction |-> direction,
     tmax |-> Inf, time |-> F(0)]

Ray_with_tmax(r, tmax) ==
    [type |-> "Ray", origin |-> r.origin, direction |-> r.direction,
     tmax |-> tmax, time |-> r.time]

\* faulty variant of Ray_with_time: the ray is built anew, so tmax is lost
Ray_with_time_rebuilt(r, time) ==
    [type |-> "Ray", origin |-> r.origin, direction |-> r.direction,
     tmax |-> Inf, time |-> time]

Ray_with_time(r, time) ==
    [type |-> "Ray", origin |-> r.origin, direction |-> r.direction,
     tmax |-> r.tmax, time |-> time]

\* faulty variant of Ray_point_at: the parameter is cut off at tmax
Ray_point_at_clipped(r, s) ==
    Point3_add_vector(r.origin,
                      Vector3_mul(r.direction, IF FLt(r.tmax, s) THEN r.tmax ELSE s))

Ray_point_at(r, s) == Point3_add_vector(r.origin, Vector3_mul(r.direction, s))

RayDifferential_new(origin, direction) ==
    [type |-> "RayDifferential", ray |-> Ray_new(origin, direction),
     rx_origin |-> None, ry_origin |-> None,
     rx_direction |-> None, ry_direction |-> None]

\* From<Ray> for RayDifferential
RayDifferential_from(ray) ==
    [type |-> "RayDifferential", ray |-> ray,
     rx_origin |-> None, ry_origin |-> None,
     rx_direction |-> None, ry_direction |-> None]

\* faulty variant of RayDifferential_with_differentials: ry_direction is
\* left absent
RayDifferential_with_differentials_partial(rd, rx_origin, rx_direction, ry_origin, ry_direction) ==
    [type |-> "RayDifferential", ray |-> rd.ray,
     rx_origin |-> Some(rx_origin), ry_origin |-> Some(ry_origin),
     rx_direction |-> Some(rx_direction), ry_direction |-> None]

RayDifferential_with_differentials(rd, rx_origin, rx_direction, ry_origin, ry_direction) ==
    [type |-> "RayDifferential", ray |-> rd.ray,
     rx_origin |-> Some(rx_origin), ry_origin |-> Some(ry_origin),
     rx_direction |-> Some(rx_direction), ry_direction |-> Some(ry_direction)]

\* Option::map with the closure of scale_differentials for an origin
map_origin(rd, o, s) ==
    IF o = None THEN None
    ELSE LET origin == o[2]
         IN  Some(Point3_add_vector(rd.ray.origin,
                      Vector3_mul(Point3_sub(origin, rd.ray.origin), s)))

\* faulty variant of map_direction: the offset is added to the auxiliary
\* direction, not to the direction of the ray
map_direction_from_aux(rd, o, s) ==
    IF o = None THEN None
    ELSE LET dir == o[2]
         IN  Some(Vector3_add(dir,
                      Vector3_mul(Vector3_sub(dir, rd.ray.direction), s)))

\* Option::map with the closure of scale_differentials for a direction
map_direction(rd, o, s) ==
    IF o = None THEN None
    ELSE LET dir == o[2]
         IN  Some(Vector3_add(rd.ray.direction,
                      Vector3_mul(Vector3_sub(dir, rd.ray.direction), s)))

\* faulty variant of RayDifferential_scale_differentials: an absent origin
\* is filled with the origin of the ray
RayDifferential_scale_differentials_filled(rd, s) ==
    [type |-> "RayDifferential", ray |-> rd.ray,
     rx_origin |-> IF rd.rx_origin = None THEN Some(rd.ray.origin)
                   ELSE map_origin(rd, rd.rx_origin, s),
     ry_origin |-> IF rd.ry_origin = None THEN Some(rd.ray.origin)
                   ELSE map_origin(rd, rd.ry_origin, s),
     rx_direction |-> map_direction(rd, rd.rx_direction, s),
     ry_direction |-> map_direction(rd, rd.ry_direction, s)]

\* faulty variant of RayDifferential_scale_differentials: the y origin is
\* scaled from the x origin
RayDifferential_scale_differentials_crossed(rd, s) ==
    [type |-> "RayDifferential", ray |-> rd.ray,
     rx_origin |-> map_origin(rd, rd.rx_origin, s),
     ry_origin |-> map_origin(rd, rd.rx_origin, s),
     rx_direction |-> map_direction(rd, rd.rx_direction, s),
     ry_direction |-> map_direction(rd, rd.ry_direction, s)]

RayDifferential_scale_differentials(rd, s) ==
    [type |-> "RayDifferential", ray |-> rd.ray,
     rx_origin |-> map_origin(rd, rd.rx_origin, s),
     ry_origin |-> map_origin(rd, rd.ry_origin, s),
     rx_direction |-> map_direction(rd, rd.rx_direction, s),
     ry_direction |-> map_direction(rd, rd.ry_direction, s)]

\* Option::is_some
is_some(o) == o # None

RayDifferential_has_differentials(rd) ==
    /\ is_some(rd.rx_origin)
    /\ is_some(rd.ry_origin)
    /\ is_some(rd.rx_direction)
    /\ is_some(rd.ry_direction)

-----------------------------------------------------------------------------
(* Dispatch on the receiver's type *)

MatrixTypes == {"Matrix2x2", "Matrix3x3", "Matrix4x4"}
TupleTypes == {"Vector2", "Vector3", "Point2", "Point3"}

\* the number of rows and columns, or of components
Dim(type) ==
    CASE type = "Matrix2x2" -> 2
      [] type = "Matrix3x3" -> 3
      [] type = "Matrix4x4" -> 4
      [] type = "Vector2" -> 2
      [] type = "Point2" -> 2
      [] type = "Vector3" -> 3
      [] type = "Point3" -> 3

add(type, a, b) ==
    CASE type = "Matrix2x2" -> Matrix2x2_add(a, b)
      [] type = "Matrix3x3" -> Matrix3x3_add(a, b)
      [] type = "Matrix4x4" -> Matrix4x4_add(a, b)

sub(type, a, b) ==
    CASE type = "Matrix2x2" -> Matrix2x2_sub(a, b)
      [] type = "Matrix3x3" -> Matrix3x3_sub(a, b)
      [] type = "Matrix4x4" -> Matrix4x4_sub(a, b)

mul_scalar(type, a, s) ==
    CASE type = "Matrix2x2" -> Matrix2x2_mul_scalar(a, s)
      [] type = "Matrix3x3" -> Matrix3x3_mul_scalar(a, s)
      [] type = "Matrix4x4" -> Matrix4x4_mul_scalar(a, s)

div(type, a, s) ==
    CASE type = "Matrix2x2" -> Matrix2x2_div(a, s)
      [] type = "Matrix3x3" -> Matrix3x3_div(a, s)
      [] type = "Matrix4x4" -> Matrix4x4_div(a, s)

mul(type, a, b) ==
    CASE type = "Matrix2x2" -> Matrix2x2_mul(a, b)
      [] type = "Matrix3x3" -> Matrix3x3_mul(a, b)
      [] type = "Matrix4x4" -> Matrix4x4_mul(a, b)

identity(type) ==
    CASE type = "Matrix2x2" -> Matrix2x2_identity
      [] type = "Matrix3x3" -> Matrix3x3_identity
      [] type = "Matrix4x4" -> Matrix4x4_identity

tranpose(type, m) ==
    CASE type = "Matrix2x2" -> Matrix2x2_tranpose(m)
      [] type = "Matrix3x3" -> Matrix3x3_tranpose(m)
      [] type = "Matrix4x4" -> Matrix4x4_tranpose(m)

inverse(type, m) ==
    CASE type = "Matrix2x2" -> Matrix2x2_inverse(m)
      [] type = "Matrix3x3" -> Matrix3x3_inverse(m)
      [] type = "Matrix4x4" -> Matrix4x4_inverse(m)

determinant(type, m) ==
    CASE type = "Matrix2x2" -> Matrix2x2_determinant(m)
      [] type = "Matrix3x3" -> Matrix3x3_determinant(m)
      [] type = "Matrix4x4" -> Matrix4x4_determinant(m)

minor(type, m, r, c) ==
    CASE type = "Matrix2x2" -> Matrix2x2_minor(m, r, c)
      [] type = "Matrix3x3" -> Matrix3x3_minor(m, r, c)
      [] type = "Matrix4x4" -> Matrix4x4_minor(m, r, c)

index(type, v, k) ==
    CASE type = "Vector2" -> Vector2_index(v, k)
      [] type = "Vector3" -> Vector3_index(v, k)
      [] type = "Point2" -> Point2_index(v, k)
      [] type = "Point3" -> Point3_index(v, k)

index_dim(type, v, d) ==
    CASE type = "Vector2" -> Vector2_index_dim(v, d)
      [] type = "Vector3" -> Vector3_index_dim(v, d)
      [] type = "Point2" -> Point2_index_dim(v, d)
      [] type = "Point3" -> Point3_index_dim(v, d)

\* the axis tags of a type
Dimensions(type) == IF Dim(type) = 2 THEN Dimension2 ELSE Dimension3

-----------------------------------------------------------------------------
(* Inputs *)

Entries == {F(x) : x \in (-MaxEntry)..MaxEntry}

\* a matrix from its rows of integers
FromInts(rows) ==
    [r \in 0..(Len(rows) - 1) |->
        [c \in 0..(Len(rows) - 1) |-> F(rows[r + 1][c + 1])]]

\* m with entry (r, c) set to x
Put(m, r, c, x) == [m EXCEPT ![r][c] = x]

Seeds2 ==
    { Matrix2x2_identity,
      FromInts(<< <<1, 2>>, <<3, 4>> >>),
      FromInts(<< <<2, 1>>, <<2, 1>> >>) }

Seeds3 ==
    { Matrix3x3_identity,
      FromInts(<< <<1, 2, 0>>, <<0, 1, 3>>, <<4, 0, 1>> >>),
      FromInts(<< <<2, -1, 1>>, <<1, 1, -2>>, <<3, 2, 1>> >>),
      FromInts(<< <<1, 2, 3>>, <<1, 2, 3>>, <<0, 1, 1>> >>) }

Seeds4 ==
    { Matrix4x4_identity,
      FromInts(<< <<1, 2, 0, 0>>, <<0, 1, 3, 0>>, <<0, 0, 1, 2>>, <<1, 0, 0, 1>> >>),
      FromInts(<< <<2, -1, 1, 0>>, <<1, 1, -2, 1>>, <<3, 2, 1, -1>>, <<0, 1, 2, 1>> >>),
      FromInts(<< <<1, 2, 3, 4>>, <<0, 1, 1, 0>>, <<1, 2, 3, 4>>, <<2, 0, 1, 1>> >>) }

Seeds(type) ==
    CASE type = "Matrix2x2" -> Seeds2
      [] type = "Matrix3x3" -> Seeds3
      [] type = "Matrix4x4" -> Seeds4

\* the receivers: the seed matrices with one entry overwritten and every 2x2
\* matrix over Entries; every vector and point over Entries
Receivers(type) ==
    CASE type = "Matrix2x2" ->
           {Matrix2x2_new(a, b, c, d) : a \in Entries, b \in Entries,
                                        c \in Entries, d \in Entries}
           \cup {Put(s, r, c, x) : s \in Seeds2, r \in 0..1, c \in 0..1,
                                   x \in Entries}
      [] type \in {"Matrix3x3", "Matrix4x4"} ->
           {Put(s, r, c, x) : s \in Seeds(type), r \in 0..(Dim(type) - 1),
                              c \in 0..(Dim(type) - 1), x \in Entries}
      [] type = "Vector2" ->
           {Vector2_new(x, y) : x \in Entries, y \in Entries}
      [] type = "Point2" ->
           {Point2_new(x, y) : x \in Entries, y \in Entries}
      [] type = "Vector3" ->
           {Vector3_new(x, y, z) : x \in Entries, y \in Entries, z \in Entries}
      [] type = "Point3" ->
           {Point3_new(x, y, z) : x \in Entries, y \in Entries, z \in Entries}
      [] type = "Normal3" ->
           {Normal3_new(x, y, z) : x \in Entries, y \in Entries, z \in Entries}

\* no operand
NoArg == <<>>

-----------------------------------------------------------------------------
(* The state machine *)

Init ==
    /\ ty \in MatrixTypes \cup TupleTypes
    /\ self \in Receivers(ty)
    /\ op = "new"
    /\ other = NoArg
    /\ t = NoArg
    /\ i = 0
    /\ j = 0
    /\ res = NoArg
    /\ calls = 0

\* one call on the receiver: the operands and the outcome are recorded and
\* the receiver keeps its value
Call(name, m, s, r, c, result) ==
    /\ op = "new"
    /\ op' = name
    /\ other' = m
    /\ t' = s
    /\ i' = r
    /\ j' = c
    /\ res' = result
    /\ calls' = calls + 1
    /\ UNCHANGED <<ty, self>>

Add ==
    /\ ty \in MatrixTypes
    /\ \E m \in Seeds(ty) : Call("add", m, NoArg, 0, 0, add(ty, self, m))

Sub ==
    /\ ty \in MatrixTypes
    /\ \E m \in Seeds(ty) : Call("sub", m, NoArg, 0, 0, sub(ty, self, m))

MulScalar ==
    /\ ty \in MatrixTypes
    /\ \E s \in Entries : Call("mul_scalar", NoArg, s, 0, 0, mul_scalar(ty, self, s))

Div ==
    /\ ty \in MatrixTypes
    /\ \E s \in Entries : Call("div", NoArg, s, 0, 0, div(ty, self, s))

Mul ==
    /\ ty \in MatrixTypes
    /\ \E m \in Seeds(ty) : Call("mul", m, NoArg, 0, 0, mul(ty, self, m))

Tranpose ==
    /\ ty \in MatrixTypes
    /\ Call("tranpose", NoArg, NoArg, 0, 0, tranpose(ty, self))

Inverse ==
    /\ ty \in MatrixTypes
    /\ Call("inverse", NoArg, NoArg, 0, 0, inverse(ty, self))

Determinant ==
    /\ ty \in MatrixTypes
    /\ Call("determinant", NoArg, NoArg, 0, 0, determinant(ty, self))

Minor ==
    /\ ty \in MatrixTypes
    /\ \E r \in 0..MaxIndex, c \in 0..MaxIndex :
          Call("minor", NoArg, NoArg, r, c, minor(ty, self, r, c))

IndexUsize ==
    /\ ty \in TupleTypes
    /\ \E k \in 0..MaxIndex : Call("index", NoArg, NoArg, k, 0, index(ty, self, k))

IndexDimension ==
    /\ ty \in TupleTypes
    /\ \E d \in Dimensions(ty) :
          Call("index_dim", d, NoArg, 0, 0, index_dim(ty, self, d))

Next ==
    \/ Add
    \/ Sub
    \/ MulScalar
    \/ Div
    \/ Mul
    \/ Tranpose
    \/ Inverse
    \/ Determinant
    \/ Minor
    \/ IndexUsize
    \/ IndexDimension

Spec == Init /\ [][Next]_vars

-----------------------------------------------------------------------------
(* Rays: sequences of calls.  Every method takes &self and returns a new   *)
(* value; the caller goes on with the value returned, which is then the    *)
(* receiver of the next call.                                              *)

\* the longest sequence of calls explored
MaxCalls == 3

\* the scalar arguments: inside, at the ends of, and outside [0, 1]
Scalars == {F(0), F(1), F(2), F(-1), Norm(1, 2)}

RayOrigins == {Point3_new(F(0), F(0), F(0)), Point3_new(F(1), F(2), F(-1))}

RayDirections == {Vector3_new(F(0), F(0), F(1)), Vector3_new(F(1), F(-1), F(2))}

\* the auxiliary rays handed to with_differentials
AuxOrigins == {Point3_new(F(1), F(0), F(0)), Point3_new(F(0), F(1), F(2))}

AuxDirections == {Vector3_new(F(1), F(0), F(1)), Vector3_new(F(0), F(2), F(1))}

InitRay ==
    /\ ty \in {"Ray", "RayDifferential"}
    /\ self \in IF ty = "Ray"
                THEN {Ray_new(o, d) : o \in RayOrigins, d \in RayDirections}
                ELSE {RayDifferential_new(o, d) : o \in RayOrigins, d \in RayDirections}
    /\ op = "new"
    /\ other = NoArg
    /\ t = NoArg
    /\ i = 0
    /\ j = 0
    /\ res = NoArg
    /\ calls = 0

RayCall(name, m, s, result) ==
    /\ calls < MaxCalls
    /\ Call(name, m, s, 0, 0, result)

WithTmax ==
    /\ ty = "Ray"
    /\ \E x \in Scalars \cup {Inf} :
          RayCall("with_tmax", NoArg, x, Ray_with_tmax(self, x))

WithTime ==
    /\ ty = "Ray"
    /\ \E x \in Scalars : RayCall("with_time", NoArg, x, Ray_with_time(self, x))

PointAt ==
    /\ ty = "Ray"
    /\ \E s \in Scalars : RayCall("point_at", NoArg, s, Ray_point_at(self, s))

From ==
    /\ ty = "Ray"
    /\ RayCall("from", NoArg, NoArg, RayDifferential_from(self))

WithDifferentials ==
    /\ ty = "RayDifferential"
    /\ \E rxo \in AuxOrigins, rxd \in AuxDirections,
          ryo \in AuxOrigins, ryd \in AuxDirections :
          RayCall("with_differentials", <<rxo, rxd, ryo, ryd>>, NoArg,
                  RayDifferential_with_differentials(self, rxo, rxd, ryo, ryd))

ScaleDifferentials ==
    /\ ty = "RayDifferential"
    /\ \E s \in Scalars :
          RayCall("scale_differentials", NoArg, s,
                  RayDifferential_scale_differentials(self, s))

HasDifferentials ==
    /\ ty = "RayDifferential"
    /\ RayCall("has_differentials", NoArg, NoArg,
               RayDifferential_has_differentials(self))

\* the caller makes the next call on the value the last call returned
Then ==
    /\ op \in {"with_tmax", "with_time", "from", "with_differentials",
               "scale_differentials"}
    /\ self' = res
    /\ ty' = res.type
    /\ op' = "new"
    /\ other' = NoArg
    /\ t' = NoArg
    /\ res' = NoArg
    /\ UNCHANGED <<i, j, calls>>

NextRay ==
    \/ WithTmax
    \/ WithTime
    \/ PointAt
    \/ From
    \/ WithDifferentials
    \/ ScaleDifferentials
    \/ HasDifferentials
    \/ Then

SpecRay == InitRay /\ [][NextRay]_vars

-----------------------------------------------------------------------------
(* Ray differentials built as struct values: the fields are public, so     *)
(* each auxiliary field is present or absent on its own.                   *)

InitDiff ==
    /\ ty = "RayDifferential"
    /\ self \in
          {[type |-> "RayDifferential", ray |-> r,
            rx_origin |-> rxo, ry_origin |-> ryo,
            rx_direction |-> rxd, ry_direction |-> ryd] :
              r \in {Ray_new(Point3_new(F(0), F(0), F(0)),
                             Vector3_new(F(0), F(0), F(1))),
                     Ray_with_time(
                         Ray_with_tmax(Ray_new(Point3_new(F(1), F(2), F(-1)),
                                               Vector3_new(F(1), F(-1), F(2))),
                                       F(2)),
                         F(1))},
              rxo \in {None} \cup {Some(o) : o \in AuxOrigins},
              ryo \in {None} \cup {Some(o) : o \in AuxOrigins},
              rxd \in {None} \cup {Some(d) : d \in AuxDirections},
              ryd \in {None} \cup {Some(d) : d \in AuxDirections}}
    /\ op = "new"
    /\ other = NoArg
    /\ t = NoArg
    /\ i = 0
    /\ j = 0
    /\ res = NoArg
    /\ calls = 0

NextDiff ==
    \/ ScaleDifferentials
    \/ HasDifferentials
    \/ Then

SpecDiff == InitDiff /\ [][NextDiff]_vars

-----------------------------------------------------------------------------
(* Vectors, points and normals: one arithmetic call on a receiver *)

\* the largest absolute component of an operand
MaxOperand == 1

PointTypes == {"Point2", "Point3"}

VectorTypes == {"Vector2", "Vector3", "Normal3"}

\* the vector type of a point type's dimension
VectorOf(type) == IF type = "Point3" THEN "Vector3" ELSE "Vector2"

\* the component names of a vector, point or normal
Components(v) ==
    IF v.type \in {"Vector2", "Point2"} THEN {"x", "y"} ELSE {"x", "y", "z"}

\* the right operands of a type: its values with small components
Operands(type) ==
    {v \in Receivers(type) : \A c \in Components(v) : Abs(v[c][1]) <= MaxOperand}

\* vectors whose coordinate_system has a rational length to divide by
VectorSeeds ==
    { Vector3_new(F(3), F(0), F(4)), Vector3_new(F(-4), F(1), F(3)),
      Vector3_new(F(0), F(3), F(4)), Vector3_new(F(1), F(-4), F(3)),
      Vector3_new(F(3), F(4), F(0)) }

InitVec ==
    /\ ty \in PointTypes \cup VectorTypes
    /\ self \in Receivers(ty) \cup (IF ty = "Vector3" THEN VectorSeeds ELSE {})
    /\ op = "new"
    /\ other = NoArg
    /\ t = NoArg
    /\ i = 0
    /\ j = 0
    /\ res = NoArg
    /\ calls = 0

Lerp ==
    /\ op = "new"
    /\ ty \in TupleTypes
    /\ \E b \in Operands(ty), s \in Scalars :
          Call("lerp", b, s, 0, 0, lerp(self, b, s))

PointAddPoint ==
    /\ op = "new"
    /\ ty \in PointTypes
    /\ \E q \in Operands(ty) : Call("add", q, NoArg, 0, 0, point_add(self, q))

PointAddVector ==
    /\ op = "new"
    /\ ty \in PointTypes
    /\ \E v \in Operands(VectorOf(ty)) :
          Call("add", v, NoArg, 0, 0, point_add_vector(self, v))

PointSubPoint ==
    /\ op = "new"
    /\ ty \in PointTypes
    /\ \E q \in Operands(ty) \cup {self} :
          Call("sub", q, NoArg, 0, 0, point_sub(self, q))

PointSubVector ==
    /\ op = "new"
    /\ ty \in PointTypes
    /\ \E v \in Operands(VectorOf(ty)) :
          Call("sub", v, NoArg, 0, 0, point_sub_vector(self, v))

Cross ==
    /\ op = "new"
    /\ ty \in {"Vector3", "Normal3"}
    /\ \E v \in Operands("Vector3")
              \cup (IF ty = "Vector3" THEN Operands("Normal3") ELSE {}) :
          Call("cross", v, NoArg, 0, 0, cross(self, v))

CoordinateSystem ==
    /\ op = "new"
    /\ ty = "Vector3"
    /\ HasExactSqrt(Vector3_magnitude_squared(coordinate_system_v2(self)))
    /\ Call("coordinate_system", NoArg, NoArg, 0, 0, coordinate_system(self))

MaxDimension ==
    /\ op = "new"
    /\ ty \in TupleTypes
    /\ Call("max_dimension", NoArg, NoArg, 0, 0, max_dimension(self))

MinComponent ==
    /\ op = "new"
    /\ ty \in TupleTypes
    /\ Call("min_component", NoArg, NoArg, 0, 0, min_component(self))

MaxComponent ==
    /\ op = "new"
    /\ ty \in TupleTypes
    /\ Call("max_component", NoArg, NoArg, 0, 0, max_component(self))

Min ==
    /\ op = "new"
    /\ ty \in TupleTypes
    /\ \E b \in Operands(ty) : Call("min", b, NoArg, 0, 0, min(self, b))

Max ==
    /\ op = "new"
    /\ ty \in TupleTypes
    /\ \E b \in Operands(ty) : Call("max", b, NoArg, 0, 0, max(self, b))

NextVec ==
    \/ Lerp
    \/ PointAddPoint
    \/ PointAddVector
    \/ PointSubPoint
    \/ PointSubVector
    \/ Cross
    \/ CoordinateSystem
    \/ MaxDimension
    \/ MinComponent
    \/ MaxComponent
    \/ Min
    \/ Max

SpecVec == InitVec /\ [][NextVec]_vars

-----------------------------------------------------------------------------
(* Vectors, points and normals: one compound assignment to a variable *)

AddAssign ==
    /\ op = "new"
    /\ \E b \in Operands(ty)
              \cup (IF ty \in PointTypes THEN Operands(VectorOf(ty)) ELSE {}) :
          /\ self' = assign("add", self, b)
          /\ op' = "add_assign"
          /\ other' = b
          /\ t' = NoArg
    /\ res' = NoArg
    /\ calls' = calls + 1
    /\ UNCHANGED <<ty, i, j>>

SubAssign ==
    /\ op = "new"
    /\ \E b \in (IF ty \in PointTypes THEN Operands(VectorOf(ty)) ELSE Operands(ty)) :
          /\ self' = assign("sub", self, b)
          /\ op' = "sub_assign"
          /\ other' = b
          /\ t' = NoArg
    /\ res' = NoArg
    /\ calls' = calls + 1
    /\ UNCHANGED <<ty, i, j>>

MulAssign ==
    /\ op = "new"
    /\ \E s \in Scalars :
          /\ self' = assign("mul", self, s)
          /\ op' = "mul_assign"
          /\ other' = NoArg
          /\ t' = s
    /\ res' = NoArg
    /\ calls' = calls + 1
    /\ UNCHANGED <<ty, i, j>>

DivAssign ==
    /\ op = "new"
    /\ \E s \in Scalars :
          /\ self' = assign("div", self, s)
          /\ op' = "div_assign"
          /\ other' = NoArg
          /\ t' = s
    /\ res' = NoArg
    /\ calls' = calls + 1
    /\ UNCHANGED <<ty, i, j>>

NextAssign ==
    \/ AddAssign
    \/ SubAssign
    \/ MulAssign
    \/ DivAssign

SpecAssign == InitVec /\ [][NextAssign]_vars

-----------------------------------------------------------------------------
(* Matrices: construction from row-major arguments, then one read or one   *)
(* in-place write of an entry                                              *)

\* the row-major constructor of a matrix type applied to a sequence
new(type, a) ==
    CASE type = "Matrix2x2" -> Matrix2x2_new(a[1], a[2], a[3], a[4])
      [] type = "Matrix3x3" ->
           Matrix3x3_new(a[1], a[2], a[3], a[4], a[5], a[6], a[7], a[8], a[9])
      [] type = "Matrix4x4" ->
           Matrix4x4_new(a[1], a[2], a[3], a[4], a[5], a[6], a[7], a[8],
                         a[9], a[10], a[11], a[12], a[13], a[14], a[15], a[16])

\* constructor arguments: all different, or all zero, with one replaced
Arguments(type) ==
    LET n == Dim(type) * Dim(type)
    IN  {[base EXCEPT ![k] = x] :
            base \in {[p \in 1..n |-> F(p + MaxEntry)], [p \in 1..n |-> F(0)]},
            k \in 1..n, x \in Entries}

InitIndex ==
    /\ ty \in MatrixTypes
    /\ other \in Arguments(ty)
    /\ self = new(ty, other)
    /\ op = "new"
    /\ t = NoArg
    /\ i = 0
    /\ j = 0
    /\ res = NoArg
    /\ calls = 0

\* m[r][c] read
IndexRead ==
    /\ op = "new"
    /\ \E r \in 0..MaxIndex, c \in 0..MaxIndex :
          Call("index", other, NoArg, r, c, At(self, r, c))

\* m[r][c] = x; a panic leaves the matrix as it was
IndexWrite ==
    /\ op = "new"
    /\ \E r \in 0..MaxIndex, c \in 0..MaxIndex, x \in Entries :
          LET after == Assign(self, r, c, x)
          IN  /\ op' = "index_mut"
              /\ i' = r
              /\ j' = c
              /\ t' = x
              /\ self' = IF after = PANIC THEN self ELSE after
              /\ res' = IF after = PANIC THEN PANIC ELSE NoArg
              /\ calls' = calls + 1
              /\ UNCHANGED <<ty, other>>

NextIndex ==
    \/ IndexRead
    \/ IndexWrite

SpecIndex == InitIndex /\ [][NextIndex]_vars

-----------------------------------------------------------------------------
(* Reference definitions the properties are stated against *)

\* the integer value of entry (r, c) of a receiver (receivers hold integers)
IntAt(m, r, c) == m[r][c][1]

IndexPermutations(n) ==
    {p \in [0..(n - 1) -> 0..(n - 1)] :
        \A a \in 0..(n - 1), b \in 0..(n - 1) : a # b => p[a] # p[b]}

Signature(p, n) ==
    LET inversions == {ab \in (0..(n - 1)) \X (0..(n - 1)) :
                          ab[1] < ab[2] /\ p[ab[1]] > p[ab[2]]}
    IN  IF Cardinality(inversions) % 2 = 0 THEN 1 ELSE -1

RECURSIVE DiagonalProduct(_, _, _)
DiagonalProduct(m, p, k) ==
    IF k < 0 THEN 1 ELSE IntAt(m, k, p[k]) * DiagonalProduct(m, p, k - 1)

RECURSIVE LeibnizSum(_, _, _)
LeibnizSum(m, n, P) ==
    IF P = {} THEN 0
    ELSE LET p == CHOOSE q \in P : TRUE
         IN  Signature(p, n) * DiagonalProduct(m, p, n - 1)
               + LeibnizSum(m, n, P \ {p})

\* the determinant of an n x n integer matrix as the sum over permutations
RefDet(m, n) == LeibnizSum(m, n, IndexPermutations(n))

\* m (n x n) with row r and column c deleted
RefMinor(m, n, r, c) ==
    [a \in 0..(n - 2) |->
        [b \in 0..(n - 2) |->
            m[IF a >= r THEN a + 1 ELSE a][IF b >= c THEN b + 1 ELSE b]]]

RECURSIVE RowExpansion(_, _, _)
\* sum over c <= k of (-1)^c * m[0][c] * det(minor(0, c))
RowExpansion(m, n, k) ==
    IF k < 0 THEN 0
    ELSE (IF k % 2 = 0 THEN 1 ELSE -1) * IntAt(m, 0, k)
             * RefDet(RefMinor(m, n, 0, k), n - 1)
           + RowExpansion(m, n, k - 1)

RECURSIVE DotInts(_, _, _, _, _)
\* sum over k <= n of a[r][k] * b[k][c]
DotInts(a, b, r, c, n) ==
    IF n < 0 THEN 0
    ELSE IntAt(a, r, n) * IntAt(b, n, c) + DotInts(a, b, r, c, n - 1)

Range(type) == 0..(Dim(type) - 1)

IsSome(x) == x # None /\ x # PANIC /\ x[1] = "Some" /\ x[2] # PANIC

HasEqualRows(type, m) ==
    \E a \in Range(type), b \in Range(type) : a # b /\ m[a] = m[b]

-----------------------------------------------------------------------------
(* Properties *)

\* C1: for Matrix3x3 and Matrix4x4 and every M with nonzero determinant,
\* inverse(M) is present and inverse(M) * M is the identity matrix.
C1_InverseTimesMIsIdentity ==
    (op = "inverse" /\ ty \in {"Matrix3x3", "Matrix4x4"}
       /\ RefDet(self, Dim(ty)) # 0)
    => (IsSome(res) /\ mul(ty, res[2], self) = identity(ty))

\* C2: for Matrix2x2 and M = [[a,b],[c,d]] with ad - bc # 0, inverse(M) is
\* present, equals [[d,-b],[-c,a]] / (ad - bc) and is a left and right inverse
\* of M; the inverse of the identity is the identity.
C2_Inverse2x2 ==
    (op = "inverse" /\ ty = "Matrix2x2")
    => LET a == IntAt(self, 0, 0)
           b == IntAt(self, 0, 1)
           c == IntAt(self, 1, 0)
           d == IntAt(self, 1, 1)
           det == a * d - b * c
       IN  /\ det # 0 =>
                /\ IsSome(res)
                /\ res[2] = (0 :> (0 :> Norm(d, det) @@ 1 :> Norm(-b, det))
                          @@ 1 :> (0 :> Norm(-c, det) @@ 1 :> Norm(a, det)))
                /\ Matrix2x2_mul(res[2], self) = Matrix2x2_identity
                /\ Matrix2x2_mul(self, res[2]) = Matrix2x2_identity
           /\ self = Matrix2x2_identity => res = Some(Matrix2x2_identity)

C2_Witness ==
    /\ op = "inverse"
    /\ ty = "Matrix2x2"
    /\ self = FromInts(<< <<1, 2>>, <<3, 4>> >>)
    /\ res = Some((0 :> (0 :> F(-2) @@ 1 :> F(1))
                @@ 1 :> (0 :> Norm(3, 2) @@ 1 :> Norm(-1, 2))))

\* C3: for every size, inverse(M) is None exactly when the determinant of M is
\* zero and a present matrix otherwise; a matrix with two equal rows yields
\* None; the call never panics.
C3_NoneIffSingular ==
    op = "inverse"
    => /\ res # PANIC
       /\ (res = None) <=> (RefDet(self, Dim(ty)) = 0)
       /\ res # None => IsSome(res)
       /\ HasEqualRows(ty, self) => res = None

C3_Witness ==
    /\ op = "inverse"
    /\ ty = "Matrix4x4"
    /\ HasEqualRows(ty, self)
    /\ self[0][0] # F(0)
    /\ res = None

\* C4: for every size and every M with nonzero determinant, inverse(M) has a
\* nonzero determinant and inverse(inverse(M)) = M.
C4_DoubleInverse ==
    (op = "inverse" /\ RefDet(self, Dim(ty)) # 0)
    => /\ IsSome(res)
       /\ determinant(ty, res[2]) # F(0)
       /\ inverse(ty, res[2]) = Some(self)

C4_Witness ==
    /\ op = "inverse"
    /\ ty = "Matrix3x3"
    /\ RefDet(self, 3) \notin {-1, 0, 1}
    /\ IsSome(res)
    /\ res[2] # self
    /\ inverse(ty, res[2]) = Some(self)

\* C5: determinant(M) is the permutation-sum determinant for every size: for
\* 2x2 it is m00*m11 - m01*m10 (det [[1,2],[3,4]] = -2), for 3x3 and 4x4 the
\* first-row cofactor expansion.
C5_Determinant ==
    op = "determinant"
    => /\ res = F(RefDet(self, Dim(ty)))
       /\ ty = "Matrix2x2" =>
             res = F(IntAt(self, 0, 0) * IntAt(self, 1, 1)
                       - IntAt(self, 0, 1) * IntAt(self, 1, 0))
       /\ ty # "Matrix2x2" =>
             res = F(RowExpansion(self, Dim(ty), Dim(ty) - 1))
       /\ self = FromInts(<< <<1, 2>>, <<3, 4>> >>) => res = F(-2)

C5_Witness ==
    /\ op = "determinant"
    /\ ty = "Matrix4x4"
    /\ \A r \in 0..3 : \E c \in 0..3 : r # c /\ self[r][c] # F(0)
    /\ res \notin {F(0), F(1)}


\* C6: for every size, matrix add, matrix subtract, scalar multiply and scalar
\* divide are component-wise in every row and column.
C6_ComponentWise ==
    (op \in {"add", "sub", "mul_scalar", "div"})
    => /\ res # PANIC
       /\ \A r \in Range(ty), c \in Range(ty) :
             res[r][c] = CASE op = "add" -> FAdd(self[r][c], other[r][c])
                           [] op = "sub" -> FSub(self[r][c], other[r][c])
                           [] op = "mul_scalar" -> FMul(self[r][c], t)
                           [] op = "div" -> FDiv(self[r][c], t)

\* C7: only positional indexing of a vector or point and minor extraction,
\* with an index out of range, end in a panic; every other operation returns
\* a value for every input.
C7_OnlyIndexAndMinorPanic ==
    /\ op \in {"add", "sub", "mul_scalar", "div", "mul", "tranpose",
               "determinant", "inverse", "index_dim"} => res # PANIC
    /\ res = PANIC =>
          \/ op = "index" /\ i >= Dim(ty)
          \/ op = "minor" /\ (i >= Dim(ty) \/ j >= Dim(ty))

\* C8: out-of-range access always panics and never wraps or clamps: indexing
\* a vector or point at a position >= its dimension panics, minor(i, j) of an
\* N x N matrix panics whenever i >= N or j >= N; positions below the
\* dimension and axis tags never panic.
C8_OutOfRangePanics ==
    /\ op = "index" => ((res = PANIC) <=> (i >= Dim(ty)))
    /\ op = "index_dim" => res # PANIC
    /\ op = "minor" => ((res = PANIC) <=> (i >= Dim(ty) \/ j >= Dim(ty)))

C8_Witness ==
    /\ op = "index"
    /\ ty = "Vector3"
    /\ i = 3
    /\ res = PANIC

\* C9: for every size, (A*B)[r][c] is the sum over k of A[r][k]*B[k][c], and
\* the identity matrix is neutral on both sides.
C9_MatrixProduct ==
    op = "mul"
    => /\ res # PANIC
       /\ \A r \in Range(ty), c \in Range(ty) :
             res[r][c] = F(DotInts(self, other, r, c, Dim(ty) - 1))
       /\ mul(ty, identity(ty), self) = self
       /\ mul(ty, self, identity(ty)) = self

C9_Witness ==
    /\ op = "mul"
    /\ ty = "Matrix4x4"
    /\ other # identity(ty)
    /\ self # identity(ty)
    /\ res \notin {PANIC, self, other}
    /\ res # mul(ty, other, self)

\* the transpose returned by a call is the mirror image of the receiver
C10_Mirrored ==
    op = "tranpose"
    => /\ res # PANIC
       /\ \A r \in Range(ty), c \in Range(ty) : res[r][c] = self[c][r]
       /\ tranpose(ty, res) = self
       /\ tranpose(ty, identity(ty)) = identity(ty)

\* C10: for every size, tranpose(M)[r][c] = M[c][r]; hence transposing twice
\* gives M back, the identity is its own transpose, and the receiver keeps its
\* value.
C10_Tranpose == [](C10_Mirrored) /\ [][self' = self]_vars

C10_Witness ==
    /\ op = "tranpose"
    /\ ty = "Matrix4x4"
    /\ res # PANIC
    /\ res # self
    /\ res[3][0] = self[0][3]
    /\ res[3][0] # self[3][0]

-----------------------------------------------------------------------------
\* the four auxiliary fields of a ray differential
AuxFields == {"rx_origin", "ry_origin", "rx_direction", "ry_direction"}

\* every auxiliary field of rd holds a value
AllPresent(rd) == \A f \in AuxFields : rd[f] # None

\* C11: has_differentials() is true exactly when all four auxiliary fields
\* are present.  It is false for a ray differential from
\* RayDifferential::new or From<Ray>, stays false until with_differentials
\* is applied, whose result has it true, is true of every value derived
\* after that, and scale_differentials returns a value with the same answer
\* as its receiver.
C11_State ==
    /\ ty = "RayDifferential" =>
          (RayDifferential_has_differentials(self) <=> AllPresent(self))
    /\ (ty = "RayDifferential" /\ calls = 0) =>
          ~RayDifferential_has_differentials(self)
    /\ op = "from" => ~RayDifferential_has_differentials(res)
    /\ op = "with_differentials" =>
          (RayDifferential_has_differentials(res) /\ AllPresent(res))
    /\ op = "scale_differentials" =>
          (RayDifferential_has_differentials(res)
              <=> RayDifferential_has_differentials(self))
    /\ op = "has_differentials" => (res <=> AllPresent(self))

C11_Step ==
    (ty = "RayDifferential" /\ ty' = "RayDifferential") =>
        /\ RayDifferential_has_differentials(self)
              => RayDifferential_has_differentials(self')
        /\ (~RayDifferential_has_differentials(self)
              /\ RayDifferential_has_differentials(self'))
              => op = "with_differentials"

C11_HasDifferentials == [](C11_State) /\ [][C11_Step]_vars

\* a scaled ray differential that had its differentials set two calls ago
C11_Witness ==
    /\ op = "scale_differentials"
    /\ calls = 3
    /\ RayDifferential_has_differentials(self)
    /\ RayDifferential_has_differentials(res)
    /\ res # self

-----------------------------------------------------------------------------
\* base + (aux - base) * s on one component
ScaledComponent(base, aux, s) == FAdd(base, FMul(FSub(aux, base), s))

\* the auxiliary value aux (an Option) of the given type, scaled about base
ScaledAbout(type, base, aux, s) ==
    IF aux = None THEN None
    ELSE Some([type |-> type,
               x |-> ScaledComponent(base.x, aux[2].x, s),
               y |-> ScaledComponent(base.y, aux[2].y, s),
               z |-> ScaledComponent(base.z, aux[2].z, s)])

\* C12: scale_differentials(t) maps each present auxiliary origin o to
\* ray.origin + (o - ray.origin) * t and each present auxiliary direction d
\* to ray.direction + (d - ray.direction) * t, the x and the y auxiliary ray
\* each from its own value only, for every t (inside or outside [0, 1]); an
\* absent field stays absent and the main ray is kept.
C12_ScaleDifferentials ==
    op = "scale_differentials" =>
        /\ res.ray = self.ray
        /\ res.rx_origin = ScaledAbout("Point3", self.ray.origin, self.rx_origin, t)
        /\ res.ry_origin = ScaledAbout("Point3", self.ray.origin, self.ry_origin, t)
        /\ res.rx_direction =
              ScaledAbout("Vector3", self.ray.direction, self.rx_direction, t)
        /\ res.ry_direction =
              ScaledAbout("Vector3", self.ray.direction, self.ry_direction, t)

\* differentials with distinct x and y rays scaled by a factor beyond 1
C12_Witness ==
    /\ op = "scale_differentials"
    /\ AllPresent(self)
    /\ t = F(2)
    /\ self.rx_origin # self.ry_origin
    /\ self.rx_direction # self.ry_direction
    /\ res.rx_origin # self.rx_origin
    /\ res.rx_origin # res.ry_origin

-----------------------------------------------------------------------------
\* C13: point_at(t) is origin + direction * t on every component; point_at(0)
\* is the origin and point_at(1) is origin + direction; the result is that
\* of a ray with the same origin and direction whatever tmax and time are.
C13_PointAt ==
    op = "point_at" =>
        /\ res = [type |-> "Point3",
                  x |-> FAdd(self.origin.x, FMul(self.direction.x, t)),
                  y |-> FAdd(self.origin.y, FMul(self.direction.y, t)),
                  z |-> FAdd(self.origin.z, FMul(self.direction.z, t))]
        /\ t = F(0) => res = self.origin
        /\ t = F(1) => res = Point3_add_vector(self.origin, self.direction)
        /\ \A tmax \in Scalars \cup {Inf}, time \in Scalars :
              Ray_point_at([self EXCEPT !.tmax = tmax, !.time = time], t) = res

\* a point beyond tmax on a ray whose tmax and time were both set
C13_Witness ==
    /\ op = "point_at"
    /\ self.tmax = F(1)
    /\ self.time = F(2)
    /\ t = F(2)
    /\ res # self.origin

\* C14: Ray::new gives tmax = +infinity and time = 0; with_tmax(x) and
\* with_time(x) return a ray that differs from the receiver in that field
\* only; origin and direction stay the same through any sequence of these
\* calls, and a call leaves its receiver as it was.
C14_State ==
    /\ (ty = "Ray" /\ calls = 0) => (self.tmax = Inf /\ self.time = F(0))
    /\ op = "with_tmax" => res = [self EXCEPT !.tmax = t]
    /\ op = "with_time" => res = [self EXCEPT !.time = t]

C14_Step ==
    /\ (ty = "Ray" /\ ty' = "Ray") =>
          (self'.origin = self.origin /\ self'.direction = self.direction)
    /\ op' \in {"with_tmax", "with_time"} => self' = self

C14_Builders == [](C14_State) /\ [][C14_Step]_vars

\* with_time on a ray whose tmax is no longer the default
C14_Witness ==
    /\ op = "with_time"
    /\ self.tmax = F(2)
    /\ t = F(1)
    /\ self.time = F(0)
    /\ res.tmax = F(2)
    /\ res.time = F(1)

-----------------------------------------------------------------------------
\* C15: lerp(a, b, t) is a * (1 - t) + b * t on every component, of the
\* type of a, with no clamping of t; lerp(a, b, 0) = a and lerp(a, b, 1) = b,
\* for vectors and points of both dimensions.
C15_Lerp ==
    op = "lerp" =>
        /\ res.type = self.type
        /\ \A c \in Components(self) :
              res[c] = FAdd(FMul(self[c], FSub(F(1), t)), FMul(other[c], t))
        /\ t = F(0) => res = self
        /\ t = F(1) => res = other

\* a point interpolated beyond the second end point
C15_Witness ==
    /\ op = "lerp"
    /\ ty = "Point3"
    /\ t = F(2)
    /\ self = Point3_new(F(1), F(-2), F(0))
    /\ other = Point3_new(F(0), F(1), F(1))
    /\ res = Point3_new(F(-1), F(4), F(2))

-----------------------------------------------------------------------------
\* the vector of the given type with every component 0
ZeroVector(type) ==
    IF type = "Vector3" THEN Vector3_new(F(0), F(0), F(0)) ELSE Vector2_new(F(0), F(0))

\* C16: point arithmetic is affine.  For points p, q and a vector v of the
\* same dimension, p - q is the Vector of the component-wise differences,
\* p + v and p - v are Points (component-wise sum and difference),
\* p - p is the zero Vector, (p + v) - p = v and (p + v) - v = p.
C16_Affine ==
    (ty \in PointTypes /\ op \in {"add", "sub"}) =>
        /\ (op = "sub" /\ other.type = ty) =>
              /\ res.type = VectorOf(ty)
              /\ \A c \in Components(self) : res[c] = FSub(self[c], other[c])
              /\ other = self => res = ZeroVector(VectorOf(ty))
        /\ (op = "sub" /\ other.type = VectorOf(ty)) =>
              /\ res.type = ty
              /\ \A c \in Components(self) : res[c] = FSub(self[c], other[c])
        /\ (op = "add" /\ other.type = VectorOf(ty)) =>
              /\ res.type = ty
              /\ \A c \in Components(self) : res[c] = FAdd(self[c], other[c])
              /\ point_sub(res, self) = other
              /\ point_sub_vector(res, other) = self

\* a point moved by a nonzero vector
C16_Witness ==
    /\ op = "add"
    /\ ty = "Point3"
    /\ other = Vector3_new(F(1), F(-1), F(1))
    /\ self = Point3_new(F(2), F(1), F(-2))
    /\ res = Point3_new(F(3), F(0), F(-1))

\* C17: the operators of Point2 and Point3 include no Point + Point: the one
\* operator taking two points is Point - Point -> Vector, and an addition
\* or subtraction yielding a point takes a Vector as its right operand.
C17_OnlyPointMinusPoint ==
    (ty \in PointTypes /\ op \in {"add", "sub"} /\ other.type \in PointTypes) =>
        (op = "sub" /\ res.type = VectorOf(ty))

-----------------------------------------------------------------------------
\* the integer a float with an integer value stands for
IntOf(x) == x[1]

\* C18: for the 3D operands v1, v2 (Vector x Vector, Vector x Normal and
\* Normal x Vector), cross(v1, v2) is the Vector3
\* (v1.y*v2.z - v1.z*v2.y, v1.z*v2.x - v1.x*v2.z, v1.x*v2.y - v1.y*v2.x),
\* and it is orthogonal to both operands: its dot product with v1 and with
\* v2 is 0.
C18_Cross ==
    op = "cross" =>
        LET ax == IntOf(self.x)
            ay == IntOf(self.y)
            az == IntOf(self.z)
            bx == IntOf(other.x)
            by == IntOf(other.y)
            bz == IntOf(other.z)
        IN  /\ <<self.type, other.type>> \in
                  {<<"Vector3", "Vector3">>, <<"Vector3", "Normal3">>,
                   <<"Normal3", "Vector3">>}
            /\ res = [type |-> "Vector3",
                      x |-> F(ay * bz - az * by),
                      y |-> F(az * bx - ax * bz),
                      z |-> F(ax * by - ay * bx)]
            /\ dot(res, self) = F(0)
            /\ dot(res, other) = F(0)

\* the cross product of two vectors that are not parallel
C18_Witness ==
    /\ op = "cross"
    /\ self = Vector3_new(F(1), F(2), F(0))
    /\ other = Vector3_new(F(0), F(1), F(1))
    /\ res = Vector3_new(F(2), F(-1), F(1))

-----------------------------------------------------------------------------
\* the vector with integer components the claim has normalized for v1
UnnormalizedV2(v1) ==
    IF Abs(IntOf(v1.x)) > Abs(IntOf(v1.y))
    THEN <<-IntOf(v1.z), 0, IntOf(v1.x)>>
    ELSE <<0, IntOf(v1.z), -IntOf(v1.y)>>

IsZeroVector(v) == v.x = F(0) /\ v.y = F(0) /\ v.z = F(0)

IsUnit(v) == Vector3_dot(v, v) = F(1)

\* C19: coordinate_system(v1) returns (v2, v3) where v2 is the normalization
\* of (-v1.z, 0, v1.x) when |v1.x| > |v1.y| and of (0, v1.z, -v1.y)
\* otherwise, and v3 = cross(v1, v2).  For every nonzero v1 the vector
\* before normalization is nonzero and orthogonal to v1, and v3 is
\* orthogonal to v1 and to v2; for v1 = (1, 0, 0) the three vectors are
\* mutually orthogonal and of unit length.  (Checked for the inputs whose
\* normalization divides by a rational length.)
C19_CoordinateSystem ==
    /\ (ty = "Vector3" /\ ~IsZeroVector(self)) =>
          LET u == UnnormalizedV2(self)
          IN  /\ coordinate_system_v2(self) = Vector3_new(F(u[1]), F(u[2]), F(u[3]))
              /\ u # <<0, 0, 0>>
              /\ u[1] * IntOf(self.x) + u[2] * IntOf(self.y) + u[3] * IntOf(self.z) = 0
    /\ (op = "coordinate_system" /\ ~IsZeroVector(self)) =>
          LET u == UnnormalizedV2(self)
              m == u[1] * u[1] + u[2] * u[2] + u[3] * u[3]
              r == CHOOSE k \in 1..m : k * k = m
              v2 == res[1]
              v3 == res[2]
          IN  /\ v2 = Vector3_new(Norm(u[1], r), Norm(u[2], r), Norm(u[3], r))
              /\ IsUnit(v2)
              /\ v3 = Vector3_cross(self, v2)
              /\ Vector3_dot(v2, self) = F(0)
              /\ Vector3_dot(v3, self) = F(0)
              /\ Vector3_dot(v3, v2) = F(0)
    /\ (op = "coordinate_system" /\ self = Vector3_new(F(1), F(0), F(0))) =>
          /\ IsUnit(self) /\ IsUnit(res[1]) /\ IsUnit(res[2])
          /\ Vector3_dot(self, res[1]) = F(0)
          /\ Vector3_dot(self, res[2]) = F(0)
          /\ Vector3_dot(res[1], res[2]) = F(0)

\* the frame of a vector whose second axis is scaled by 1/5
C19_Witness ==
    /\ op = "coordinate_system"
    /\ self = Vector3_new(F(3), F(0), F(4))
    /\ res = <<Vector3_new(Norm(-4, 5), F(0), Norm(3, 5)),
               Vector3_new(F(0), F(-5), F(0))>>

-----------------------------------------------------------------------------
\* C20: for each matrix size, reading m[i][j] returns the entry of row i,
\* column j as supplied to the row-major constructor, and an in-place write
\* m[i][j] = x changes exactly that entry: afterwards m[i][j] = x and every
\* other entry keeps its previous value.
C20_Read ==
    (op = "index" /\ i < Dim(ty) /\ j < Dim(ty)) => res = other[Dim(ty) * i + j + 1]

C20_Write ==
    (op' = "index_mut" /\ i' < Dim(ty) /\ j' < Dim(ty)) =>
        /\ res' # PANIC
        /\ At(self', i', j') = t'
        /\ \A k \in 0..(Dim(ty) - 1), l \in 0..(Dim(ty) - 1) :
              self'[k][l] = IF <<k, l>> = <<i', j'>> THEN t' ELSE self[k][l]

C20_ReadWrite == [](C20_Read) /\ [][C20_Write]_vars

\* an off-diagonal entry of a 3x3 matrix overwritten, its mirror entry kept
C20_Witness ==
    /\ op = "index_mut"
    /\ ty = "Matrix3x3"
    /\ i = 1
    /\ j = 2
    /\ t = F(-2)
    /\ other = [[p \in 1..9 |-> F(p + MaxEntry)] EXCEPT ![1] = F(0)]
    /\ At(self, 1, 2) = F(-2)
    /\ At(self, 2, 1) = other[8]
    /\ At(self, 2, 1) # F(-2)

-----------------------------------------------------------------------------
\* C21: for Matrix3x3 and Matrix4x4 and every M with nonzero determinant,
\* entry (i, j) of inverse(M) is (-1)^(i+j) * determinant(minor(j, i)) /
\* determinant(M): the transposed cofactor matrix divided by the
\* determinant.
C21_Adjugate ==
    (op = "inverse" /\ ty \in {"Matrix3x3", "Matrix4x4"}
       /\ RefDet(self, Dim(ty)) # 0)
    => /\ IsSome(res)
       /\ \A r \in Range(ty), c \in Range(ty) :
             res[2][r][c] =
                Norm((IF (r + c) % 2 = 0 THEN 1 ELSE -1)
                        * RefDet(RefMinor(self, Dim(ty), c, r), Dim(ty) - 1),
                     RefDet(self, Dim(ty)))

\* C22: for an N x N matrix (N = 2, 3, 4) and in-range i, j, minor(i, j) is
\* the matrix with row i and column j deleted and the other rows and
\* columns in their original order: its entry (r, c) is
\* M[r + (r >= i ? 1 : 0)][c + (c >= j ? 1 : 0)]; for N = 2 it is the one
\* remaining scalar.
C22_Minor ==
    (op = "minor" /\ i < Dim(ty) /\ j < Dim(ty)) =>
        IF ty = "Matrix2x2"
        THEN res = self[1 - i][1 - j]
        ELSE /\ DOMAIN res = 0..(Dim(ty) - 2)
             /\ \A r \in 0..(Dim(ty) - 2) :
                   /\ DOMAIN res[r] = 0..(Dim(ty) - 2)
                   /\ \A c \in 0..(Dim(ty) - 2) :
                         res[r][c] = self[IF r >= i THEN r + 1 ELSE r]
                                         [IF c >= j THEN c + 1 ELSE c]

\* row 1 and column 2 deleted from a 4x4 matrix with different rows
C22_Witness ==
    /\ op = "minor"
    /\ ty = "Matrix4x4"
    /\ i = 1
    /\ j = 2
    /\ res[1][2] = self[2][3]
    /\ res[1][2] # self[3][2]
    /\ res[0] # res[1]

-----------------------------------------------------------------------------
\* C23: max_dimension on Vector3 / Point3 returns X iff x is strictly
\* greater than both y and z, else Y iff y is strictly greater than both x
\* and z, else Z, so any tie for the greatest component (x = y > z
\* included) gives Z; on Vector2 / Point2 it returns X iff x > y and Y
\* otherwise.
C23_MaxDimension ==
    op = "max_dimension" =>
        LET x == IntOf(self.x)
            y == IntOf(self.y)
        IN  IF ty \in {"Vector2", "Point2"}
            THEN /\ res = "X" <=> x > y
                 /\ res # "X" => res = "Y"
            ELSE LET z == IntOf(self.z)
                 IN  /\ res = "X" <=> (x > y /\ x > z)
                     /\ res = "Y" <=> (~(x > y /\ x > z) /\ y > x /\ y > z)
                     /\ res \notin {"X", "Y"} => res = "Z"
                     /\ (~(x > y /\ x > z) /\ ~(y > x /\ y > z)
                           /\ ~(z > x /\ z > y)) => res = "Z"

\* x and y tie for the greatest component of a point
C23_Witness ==
    /\ op = "max_dimension"
    /\ self = Point3_new(F(2), F(2), F(-1))
    /\ res = "Z"

\* C24: partial_min(a, b) is a iff a < b and b otherwise, partial_max(a, b)
\* is a iff a > b and b otherwise.  min_component / max_component of a 3D
\* value are partial_min(x, partial_min(y, z)) / partial_max(x,
\* partial_max(y, z)) and equal the least / greatest component; the
\* component-wise min / max apply the same rule to each component.
C24_MinMax ==
    /\ ty \in TupleTypes =>
          /\ partial_min(self.x, self.y) =
                (IF IntOf(self.x) < IntOf(self.y) THEN self.x ELSE self.y)
          /\ partial_max(self.x, self.y) =
                (IF IntOf(self.x) > IntOf(self.y) THEN self.x ELSE self.y)
    /\ op = "min_component" =>
          /\ ty \in {"Vector3", "Point3"} =>
                res = partial_min(self.x, partial_min(self.y, self.z))
          /\ \E c \in Components(self) : res = self[c]
          /\ \A c \in Components(self) : IntOf(res) <= IntOf(self[c])
    /\ op = "max_component" =>
          /\ ty \in {"Vector3", "Point3"} =>
                res = partial_max(self.x, partial_max(self.y, self.z))
          /\ \E c \in Components(self) : res = self[c]
          /\ \A c \in Components(self) : IntOf(res) >= IntOf(self[c])
    /\ op = "min" =>
          /\ res.type = ty
          /\ \A c \in Components(self) :
                res[c] = IF IntOf(self[c]) < IntOf(other[c]) THEN self[c] ELSE other[c]
    /\ op = "max" =>
          /\ res.type = ty
          /\ \A c \in Components(self) :
                res[c] = IF IntOf(self[c]) > IntOf(other[c]) THEN self[c] ELSE other[c]

\* the least component of a vector is its last one
C24_Witness ==
    /\ op = "min_component"
    /\ self = Vector3_new(F(1), F(2), F(-2))
    /\ res = F(-2)

-----------------------------------------------------------------------------
\* C25: scale_differentials(t) preserves presence and the primary ray: each
\* of the four auxiliary fields is present in the result iff it is present
\* in the receiver, for every combination of present and absent fields;
\* the ray of the result equals the receiver's in origin, direction, tmax
\* and time; the receiver is unchanged.
C25_State ==
    op = "scale_differentials" =>
        /\ \A f \in AuxFields : (res[f] = None) <=> (self[f] = None)
        /\ res.ray.origin = self.ray.origin
        /\ res.ray.direction = self.ray.direction
        /\ res.ray.tmax = self.ray.tmax
        /\ res.ray.time = self.ray.time

C25_Step == op' = "scale_differentials" => self' = self

C25_Frame == [](C25_State) /\ [][C25_Step]_vars

\* two fields present and two absent, on a ray with tmax and time set
C25_Witness ==
    /\ op = "scale_differentials"
    /\ t = F(2)
    /\ self.rx_origin # None
    /\ self.ry_origin = None
    /\ self.rx_direction = None
    /\ self.ry_direction # None
    /\ self.ray.tmax = F(2)
    /\ self.ray.time = F(1)
    /\ res.rx_origin # self.rx_origin

\* C27: scale_differentials composes multiplicatively around the primary
\* ray: scaling by s and then by t gives the fields of scaling by s * t;
\* scale_differentials(1) returns a value equal to the receiver, and
\* scale_differentials(0) sets every present auxiliary origin to
\* ray.origin and every present auxiliary direction to ray.direction.
C27_Composition ==
    op = "scale_differentials" =>
        /\ \A s \in Scalars :
              RayDifferential_scale_differentials(res, s)
                 = RayDifferential_scale_differentials(self, FMul(t, s))
        /\ t = F(1) => res = self
        /\ t = F(0) =>
              /\ \A f \in {"rx_origin", "ry_origin"} :
                    self[f] # None => res[f] = Some(self.ray.origin)
              /\ \A f \in {"rx_direction", "ry_direction"} :
                    self[f] # None => res[f] = Some(self.ray.direction)

\* a ray differential scaled by 2 and the result scaled by 1/2
C27_Witness ==
    /\ op = "scale_differentials"
    /\ calls = 2
    /\ t = Norm(1, 2)
    /\ AllPresent(self)
    /\ self.rx_origin # self.ry_origin
    /\ RayDifferential_scale_differentials(res, F(2)) = self
    /\ res # self

-----------------------------------------------------------------------------
\* C26: for Vector2, Vector3, Point2, Point3 and Normal3, every compound
\* assignment replaces the whole value with the result of the corresponding
\* binary operator: after a += b, a -= b, a *= s or a /= s the variable a
\* equals the old a + b, a - b, a * s or a / s in every component, and the
\* right operand is as it was passed.
C26_Step ==
    /\ op' = "add_assign" =>
          /\ self' = binary("add", self, other')
          /\ \A c \in Components(self) : self'[c] = FAdd(self[c], other'[c])
          /\ (ty = "Vector3") => self' = Vector3_add(self, other')
          /\ (ty = "Vector2") => self' = Vector2_add(self, other')
          /\ (ty \in PointTypes /\ other'.type = ty) => self' = point_add(self, other')
          /\ (ty \in PointTypes /\ other'.type # ty) =>
                self' = point_add_vector(self, other')
    /\ op' = "sub_assign" =>
          /\ self' = binary("sub", self, other')
          /\ \A c \in Components(self) : self'[c] = FSub(self[c], other'[c])
          /\ (ty = "Vector3") => self' = Vector3_sub(self, other')
          /\ (ty \in PointTypes) => self' = point_sub_vector(self, other')
    /\ op' = "mul_assign" =>
          /\ self' = binary("mul", self, t')
          /\ \A c \in Components(self) : self'[c] = FMul(self[c], t')
          /\ (ty = "Vector3") => self' = Vector3_mul(self, t')
          /\ (ty = "Vector2") => self' = Vector2_mul(self, t')
          /\ (ty = "Point3") => self' = Point3_mul(self, t')
          /\ (ty = "Point2") => self' = Point2_mul(self, t')
    /\ op' = "div_assign" =>
          /\ self' = binary("div", self, t')
          /\ \A c \in Components(self) : self'[c] = FDiv(self[c], t')
    /\ op' # "new" => self'.type = self.type

C26_CompoundAssignment == [][C26_Step]_vars

\* a normal divided in place by 2
C26_Witness ==
    /\ op = "div_assign"
    /\ ty = "Normal3"
    /\ t = F(2)
    /\ self = Normal3_new(Norm(1, 2), F(-1), F(0))

=============================================================================
